---- MODULE Spec2Model ----
(***************************************************************************)
(* Model of the two control loops of the screenplay assistant:             *)
(*   run_edit_loop (services/edit_loop.py) and                             *)
(*   run_ask_loop  (services/ask_loop.py).                                 *)
(* One action is one iteration of the `while` loop of a run: the router    *)
(* picks the phase, the phase makes its collaborator calls (model, store), *)
(* whose outputs are drawn from small sets, and updates the loop state.    *)
(***************************************************************************)
EXTENDS Integers, Sequences, FiniteSets, TLC

\* ------------------------------------------------------------------------
\* Bounds of the model
\* ------------------------------------------------------------------------
MaxIterBudget == 9       \* budgets.max_iterations is drawn from 0..MaxIterBudget
MaxLocateBudget == 2     \* budgets.max_locate_attempts from 0..MaxLocateBudget
MaxRefineBudget == 1     \* budgets.max_refine_attempts from 0..MaxRefineBudget
MaxVerifyBudget == 2     \* budgets.max_verify_attempts from 0..MaxVerifyBudget
MaxRetrieveBudget == 2   \* budgets.max_retrieve_attempts from 0..MaxRetrieveBudget
MaxIds == 1              \* length of an id list returned by a collaborator
MaxEdits == 1            \* length of an edit list returned by the model
MaxRefineDeep == 2       \* max_refine_attempts from 0..MaxRefineDeep in the recovery runs
MaxVerifyDeep == 4       \* max_verify_attempts from 0..MaxVerifyDeep in the recovery runs
MaxQuestions == 4        \* number of clarifying questions a planner returns
MaxPool == 2             \* length of an id list in the evidence selection runs
MaxMust == 2             \* number of must-include ids in the evidence selection runs
MaxTodoCalls == 3        \* number of todo_update calls in the checklist runs

\* ------------------------------------------------------------------------
\* Values
\* ------------------------------------------------------------------------
\* Optional[T]: None is the empty tuple, a present value x is <<x>>.
None == <<>>
Some(x) == <<x>>
IsNone(o) == o = <<>>
Val(o) == o[1]

Min(a, b) == IF a < b THEN a ELSE b

\* items[:n]
Take(items, n) == SubSeq(items, 1, Min(n, Len(items)))

\* Element ids.  "e1" occurs in the text of the context window, "e2" is an
\* element of the project that does not.
Ids == {"e1", "e2"}
WindowIds == {"e1"}

SeqsUpTo(S, n) == UNION {[1..k -> S] : k \in 0..n}
IdLists == SeqsUpTo(Ids, MaxIds)
Range(f) == {f[i] : i \in DOMAIN f}

\* An edit proposal as the loop reads it: elementId ("" when missing) and
\* newContent ("" when empty).
EditProposals ==
    {[elementId |-> "e1", newContent |-> "new"], [elementId |-> "e2", newContent |-> "new"],
     [elementId |-> "", newContent |-> "new"], [elementId |-> "e1", newContent |-> ""]}
EditLists == SeqsUpTo(EditProposals, MaxEdits)

\* What an agent hands to _coerce_edit_response: nothing usable (None,
\* a non-dict, unparsable text) or a dict with an "edits" list.
RawEditData == {None} \cup {Some(l) : l \in EditLists}

\* ------------------------------------------------------------------------
\* The per-run checklist (todo_update, todo_finish_sweep; the same code in
\* both loops)
\* ------------------------------------------------------------------------
\* state.todo_status is a dict; an id without an entry maps to "none" here.
EditTodoIds == {"plan_intent", "clarify", "locate", "load_context", "synthesize",
                "propose", "refine", "verify", "finish"}
AskTodoIds == {"plan", "clarify", "retrieve", "rerank", "grounding", "answer"}

\* The fallback checklists: a planner that returns no usable todo list
EditFallbackTodos == {"plan_intent", "clarify", "locate", "load_context", "propose",
                      "refine", "verify"}
AskFallbackTodos(direct) ==
    IF direct THEN {"plan", "answer"} ELSE {"plan", "retrieve", "answer"}

NoTodoStatus(ids) == [id \in ids |-> "none"]

Finished == {"done", "skipped"}

\* A todo_update that emits whatever the recorded status is
TodoEmitsAlways(todo_status, todo_id, new_status) ==
    todo_id # "" /\ new_status # ""

\* todo_update emits (and records) only when the id and the status are not
\* blank and the status differs from the recorded one
TodoEmits(todo_status, todo_id, new_status) ==
    /\ todo_id # ""
    /\ new_status # ""
    /\ todo_status[todo_id] # new_status

\* A checklist as a run carries it: the recorded statuses, the number of
\* todo_update events emitted, and whether one of them moved an id from
\* done or skipped back to pending or in_progress.
Checklist(todo_status, emitted, regressed) ==
    [todo_status |-> todo_status, emitted |-> emitted, regressed |-> regressed]

\* The one element of a singleton set. The operators below bind their
\* checklist argument through a singleton so that it is evaluated once.
Only(S) == CHOOSE x \in S : TRUE

\* todo_update(todo_id, new_status)
TodoUpdate(c, todo_id, new_status) ==
    Only({IF TodoEmits(cl.todo_status, todo_id, new_status)
            THEN Checklist([cl.todo_status EXCEPT ![todo_id] = new_status],
                           cl.emitted + 1,
                           cl.regressed \/ (cl.todo_status[todo_id] \in Finished
                                               /\ new_status \notin Finished))
            ELSE cl : cl \in {c}})

\* A sequence of todo_update calls, each <<id, status>>
RECURSIVE TodoUpdates(_, _)
TodoUpdates(c, calls) ==
    IF calls = <<>> THEN c
    ELSE TodoUpdates(TodoUpdate(c, Head(calls)[1], Head(calls)[2]), Tail(calls))

\* todo_finish_sweep: every todo of the list that is not done or skipped is
\* updated to skipped
TodoFinishSweep(c, todos) ==
    Only({Checklist([id \in DOMAIN cl.todo_status |->
                        IF id \in todos /\ cl.todo_status[id] \notin Finished
                          THEN "skipped" ELSE cl.todo_status[id]],
                    cl.emitted + Cardinality({id \in todos :
                                                cl.todo_status[id] \notin Finished}),
                    cl.regressed) : cl \in {c}})

\* ------------------------------------------------------------------------
\* State
\* ------------------------------------------------------------------------
VARIABLES
    loop,       \* which entry point runs: "edit" (run_edit_loop) or "ask" (run_ask_loop)
    budgets,    \* EditLoopBudgets / AskLoopBudgets, immutable per run
    deps,       \* EditGraphDeps as the loop reads it, with the feature flags and agents present
    state,      \* EditLoopState / AskLoopState
    pc,         \* "loop": in the while loop; "returned"; "raised": an exception left the run
    result,     \* the value returned by the run, None until it returns
    decision,   \* action (and strategy) of the last `decision` event emitted
    status,     \* tag of the last `status` event emitted
    events,     \* what the run has emitted so far: counts of the apply markers and
                \* the questions of the clarify exit (Edit), the tools called (Ask)
    todo        \* the run's checklist: state.todo_status, the status last emitted
                \* for each id in a todo_update event, and whether an emitted
                \* update moved an id back from done or skipped

vars == <<loop, budgets, deps, state, pc, result, decision, status, events, todo>>

\* The checklist of a run that has emitted nothing yet
NoTodo(ids) ==
    [todo_status |-> NoTodoStatus(ids), last_emitted |-> NoTodoStatus(ids),
     regressed |-> FALSE]

\* The checklist as the current iteration finds it
RunChecklist == Checklist(todo.todo_status, 0, todo.regressed)

\* The checklist after the todo_update calls of an iteration: every status
\* recorded was emitted
Recorded(c) ==
    Only({[todo_status |-> cl.todo_status, last_emitted |-> cl.todo_status,
           regressed |-> cl.regressed] : cl \in {c}})

\* id in_progress, then id done: a phase that runs to its end
Worked(c, todo_id) ==
    TodoUpdates(c, <<(<<todo_id, "in_progress">>), (<<todo_id, "done">>)>>)

\* EditLoopBudgets
EditBudgets ==
    [max_iterations : 0..MaxIterBudget,
     max_locate_attempts : 0..MaxLocateBudget,
     max_refine_attempts : 0..MaxRefineBudget,
     max_verify_attempts : 0..MaxVerifyBudget]

\* The collaborators a run is given: the context window (empty or not), the
\* store (deps.project_id and deps.db_pool), the EDIT_VERIFY_RECOVER flag and
\* the optional agents probed with hasattr.
EditDeps ==
    [scene_context : {"", "window"},
     store : BOOLEAN,
     verify_recover_enabled : BOOLEAN,
     edit_verify_structured_agent : BOOLEAN,
     edit_revise_edits_agent : BOOLEAN]

\* Caller-supplied anchor ids (state.context_element_ids).
AnchorLists == {<<>>, <<"e2">>}

\* EditLoopState as constructed by the caller: every artifact unset, every
\* counter 0, context_size 3.  Fields that only feed prompt texts
\* (user_prompt, selected_text, search_terms, verification_issues,
\* verification_result) are not part of the model state.
EditLoopState(anchors) ==
    [context_element_ids |-> anchors,
     intent |-> None,
     relevant_element_ids |-> <<>>,
     loaded_context |-> None,
     understanding |-> None,
     proposed_edits |-> None,
     applied_edits |-> None,
     apply_started_emitted |-> FALSE,
     context_size |-> 3,
     iterations |-> 0,
     locate_attempts |-> 0,
     refine_attempts |-> 0,
     verify_attempts |-> 0]

\* Nothing emitted yet: no apply_started, no apply_done, no clarify status;
\* planned_questions are the clarifying_questions of the llm.plan_intent
\* tool_result event, listed_questions those of the clarify status message.
EditEvents ==
    [apply_started |-> 0,
     apply_done |-> 0,
     clarify_statuses |-> 0,
     planned_questions |-> <<>>,
     listed_questions |-> <<>>]

InitEdit ==
    /\ loop = "edit"
    /\ budgets \in EditBudgets
    /\ deps \in EditDeps
    /\ \E anchors \in AnchorLists : state = EditLoopState(anchors)
    /\ pc = "loop"
    /\ result = None
    /\ decision = "none"
    /\ status = "start"
    /\ events = EditEvents
    /\ todo = NoTodo(EditTodoIds)

\* ------------------------------------------------------------------------
\* Edit Loop: helpers
\* ------------------------------------------------------------------------
\* _coerce_edit_response: None for unusable data, otherwise the dict's edit
\* list (the fields of an entry are already strings here).
CoerceEditResponse(data) == IF IsNone(data) THEN None ELSE Some(Val(data))

\* `x or {"edits": []}` on an Optional[EditResponse]
EditsOrEmpty(o) == IF IsNone(o) THEN <<>> ELSE Val(o)

\* The ROUTE chain at the top of the loop body: the first phase whose guard holds.
Route(s, b) ==
    IF IsNone(s.intent) THEN "plan_intent"
    ELSE IF s.relevant_element_ids = <<>> /\ s.locate_attempts < b.max_locate_attempts
        THEN "locate_candidates"
    ELSE IF IsNone(s.loaded_context) THEN "load_context"
    ELSE IF IsNone(s.understanding) THEN "synthesize"
    ELSE IF IsNone(s.proposed_edits) THEN "propose_edits"
    ELSE IF IsNone(s.applied_edits) /\ s.refine_attempts < b.max_refine_attempts
        THEN "refine_edits"
    ELSE IF s.verify_attempts < b.max_verify_attempts THEN "verify"
    ELSE "finish"

\* `while state.iterations < budgets.max_iterations` holds and ROUTE picks phase
Enters(phase) ==
    /\ loop = "edit"
    /\ pc = "loop"
    /\ state.iterations < budgets.max_iterations
    /\ Route(state, budgets) = phase

\* state.iterations += 1
\* await emit({"type": "status", "message": ...}) on an exit that returns
\* no result: the message becomes the last status of the run
ExitStatusSilent(last_status, message) == last_status
ExitStatus(last_status, message) == message

Tick(s) == [s EXCEPT !.iterations = @ + 1]

\* `continue`: the run stays in the loop
Continue == pc' = "loop" /\ result' = None

\* `return {"edits": edits}`
Return(edits) == pc' = "returned" /\ result' = Some(edits)

\* The radius grown without the ceiling
GrowContextNoCeiling(size) == size + 2

\* state.context_size = min(state.context_size + 2, 8)
GrowContext(size) == Min(size + 2, 8)

\* A relocate that starts over from the initial radius
RelocateResetsRadius(s) ==
    [s EXCEPT !.relevant_element_ids = <<>>,
              !.loaded_context = None,
              !.understanding = None,
              !.proposed_edits = None,
              !.applied_edits = None,
              !.context_size = 3]

\* A relocate that also gives the LOCATE attempts back
RelocateResetsAttempts(s) ==
    [s EXCEPT !.relevant_element_ids = <<>>,
              !.loaded_context = None,
              !.understanding = None,
              !.proposed_edits = None,
              !.applied_edits = None,
              !.context_size = GrowContext(@),
              !.locate_attempts = 0]

\* The relocate recovery
Relocate(s) ==
    [s EXCEPT !.relevant_element_ids = <<>>,
              !.loaded_context = None,
              !.understanding = None,
              !.proposed_edits = None,
              !.applied_edits = None,
              !.context_size = GrowContext(@)]

\* A reload_context that leaves the understanding in place
ReloadContextKeepsUnderstanding(s) ==
    [s EXCEPT !.loaded_context = None,
              !.proposed_edits = None,
              !.applied_edits = None,
              !.context_size = GrowContext(@)]

\* A reload_context that leaves the proposal in place
ReloadContextKeepsProposal(s) ==
    [s EXCEPT !.loaded_context = None,
              !.understanding = None,
              !.applied_edits = None,
              !.context_size = GrowContext(@)]

\* The reload_context recovery
ReloadContext(s) ==
    [s EXCEPT !.loaded_context = None,
              !.understanding = None,
              !.proposed_edits = None,
              !.applied_edits = None,
              !.context_size = GrowContext(@)]

\* The local checks of a VERIFY round on the applied edit list
StructuralIssues(applied, allowed_ids) ==
    {c \in {"missing_id", "empty_content", "not_in_context"} :
        \E i \in DOMAIN applied :
            \/ c = "missing_id" /\ applied[i].elementId = ""
            \/ c = "empty_content" /\ applied[i].newContent = ""
            \/ /\ c = "not_in_context"
               /\ allowed_ids # {}
               /\ applied[i].elementId # ""
               /\ applied[i].elementId \notin allowed_ids}

\* Clarifying questions: question k is the number k, 0 is a blank string.
\* A planner returns the first n questions, or a list with a blank entry.
QuestionLists == {[i \in 1..n |-> i] : n \in 0..MaxQuestions} \cup {<<0>>, <<0, 1>>}

\* The question the loop asks when the planner gave none
DefaultQuestion == -1

\* [str(x).strip() for x in qs if str(x).strip()]
NonBlank(qs) == SelectSeq(qs, LAMBDA q : q # 0)

\* A clarify message that lists every question
ClarifyQuestionsUncut(qs) ==
    IF NonBlank(qs) = <<>> THEN <<DefaultQuestion>> ELSE NonBlank(qs)

\* The questions of the clarify message: the non-blank ones, the default
\* question when there is none, cut to questions[:3]
ClarifyQuestions(qs) ==
    Take(IF NonBlank(qs) = <<>> THEN <<DefaultQuestion>> ELSE NonBlank(qs), 3)

\* An apply_done that is not emitted
EmitApplyDoneDropped(ev) == ev

\* await emit({"type": "apply_done"})
EmitApplyDone(ev) == [ev EXCEPT !.apply_done = @ + 1]

\* apply_started emitted on every entry into REFINE
EmitsApplyStartedAlways(s) == TRUE

\* `if not state.apply_started_emitted` of REFINE
EmitsApplyStarted(s) == ~s.apply_started_emitted

\* allowed_ids: the anchors and the located ids
AllowedIds(s) == Range(s.context_element_ids) \cup Range(s.relevant_element_ids)

\* suggested_recovery values the structured verifier may return
Recoveries == {"relocate", "reload_context", "revise_edits", "abort", "unknown"}

\* ------------------------------------------------------------------------
\* Edit Loop: one action per phase (one loop iteration each)
\* ------------------------------------------------------------------------
\* PLAN_INTENT: one planner call; clarify returns an empty edit set.
PlanIntent ==
    /\ Enters("plan_intent")
    /\ \E intent_text \in {"intent"}, next_action \in {"proceed", "clarify"} :
        /\ state' = [Tick(state) EXCEPT !.intent = Some(intent_text)]
        /\ IF next_action = "clarify"
             THEN /\ \E qs \in QuestionLists :
                       events' = [events EXCEPT
                                    !.planned_questions = qs,
                                    !.listed_questions = ClarifyQuestions(qs),
                                    !.clarify_statuses = @ + 1]
                  /\ todo' = Recorded(TodoFinishSweep(
                                Worked(TodoUpdate(RunChecklist, "plan_intent", "done"), "clarify"),
                                EditFallbackTodos))
                  /\ decision' = "clarify"
                  /\ status' = ExitStatus(status, "clarify_questions")
                  /\ Return(<<>>)
             ELSE /\ events' = events
                  /\ todo' = Recorded(TodoUpdate(RunChecklist, "plan_intent", "done"))
                  /\ decision' = "plan_intent"
                  /\ status' = "planning"
                  /\ Continue
    /\ UNCHANGED <<loop, budgets, deps>>

\* LOCATE: search terms, vector search, keyword search, then the model
\* fallback inside the context window, then the anchors; with no store hit
\* and no context window the run returns an empty edit set.
Locate ==
    /\ Enters("locate_candidates")
    /\ decision' = "locate_candidates"
    /\ LET s1 == [Tick(state) EXCEPT !.locate_attempts = @ + 1]
       IN  \E has_terms \in BOOLEAN :
           \E element_ids \in (IF deps.store /\ has_terms THEN IdLists ELSE {<<>>}) :
             IF element_ids # <<>>
               THEN /\ state' = [s1 EXCEPT !.relevant_element_ids = element_ids]
                    /\ todo' = Recorded(Worked(RunChecklist, "locate"))
                    /\ status' = "located_via_retrieval"
                    /\ Continue
             ELSE IF deps.scene_context # ""
               THEN /\ \E llm_ids \in IdLists :
                        LET ids == IF llm_ids = <<>> /\ s1.context_element_ids # <<>>
                                     THEN s1.context_element_ids
                                     ELSE llm_ids
                        IN  state' = [s1 EXCEPT !.relevant_element_ids = ids]
                    /\ todo' = Recorded(Worked(RunChecklist, "locate"))
                    /\ status' = "located_via_llm"
                    /\ Continue
             ELSE /\ state' = s1
                  /\ todo' = Recorded(TodoFinishSweep(
                                TodoUpdate(RunChecklist, "locate", "in_progress"),
                                EditFallbackTodos))
                  /\ status' = ExitStatus(status, "locate_no_matches")
                  /\ Return(<<>>)
    /\ UNCHANGED <<loop, budgets, deps, events>>

\* LOAD_CONTEXT: store extraction around the located ids with the current
\* radius, else the model fallback over the full window.
LoadContext ==
    /\ Enters("load_context")
    /\ decision' = "load_context"
    /\ \E db_context \in {"", "context"}, llm_context \in {"context"} :
        IF deps.store /\ state.relevant_element_ids # <<>> /\ db_context # ""
          THEN /\ state' = [Tick(state) EXCEPT !.loaded_context = Some(db_context)]
               /\ status' = "context_extracted"
          ELSE /\ state' = [Tick(state) EXCEPT !.loaded_context = Some(llm_context)]
               /\ status' = "context_via_llm"
    /\ Continue
    /\ todo' = Recorded(Worked(RunChecklist, "load_context"))
    /\ UNCHANGED <<loop, budgets, deps, events>>

\* SYNTHESIZE: one model call produces the understanding.
Synthesize ==
    /\ Enters("synthesize")
    /\ decision' = "synthesize"
    /\ state' = [Tick(state) EXCEPT !.understanding = Some("understanding")]
    /\ status' = "synthesized"
    /\ Continue
    /\ todo' = Recorded(Worked(RunChecklist, "synthesize"))
    /\ UNCHANGED <<loop, budgets, deps, events>>

\* PROPOSE: one model call; malformed output yields the empty set.
Propose ==
    /\ Enters("propose_edits")
    /\ decision' = "propose_edits"
    /\ \E data \in RawEditData :
        state' = [Tick(state) EXCEPT
                    !.proposed_edits = Some(EditsOrEmpty(CoerceEditResponse(data)))]
    /\ status' = "proposed"
    /\ Continue
    /\ todo' = Recorded(Worked(RunChecklist, "propose"))
    /\ UNCHANGED <<loop, budgets, deps, events>>

\* REFINE: one model call turns the proposed set into the applied set; the
\* first entry emits apply_started.
Refine ==
    /\ Enters("refine_edits")
    /\ decision' = "refine_edits"
    /\ \E data \in RawEditData :
        LET edits == CoerceEditResponse(data)
        IN  state' = [Tick(state) EXCEPT
                        !.refine_attempts = @ + 1,
                        !.apply_started_emitted = TRUE,
                        !.applied_edits =
                            IF IsNone(edits) THEN Some(EditsOrEmpty(state.proposed_edits))
                                             ELSE edits]
    /\ events' = IF EmitsApplyStarted(state)
                   THEN [events EXCEPT !.apply_started = @ + 1]
                   ELSE events
    /\ todo' = Recorded(Worked(RunChecklist, "refine"))
    /\ status' = "refined"
    /\ Continue
    /\ UNCHANGED <<loop, budgets, deps>>

\* The `decision` event of the recovery playbook: action "recover" with the
\* verifier's suggested_recovery as its strategy, whatever branch then runs.
RecoverDecision(suggested_recovery) ==
    IF suggested_recovery \in {"relocate", "reload_context", "revise_edits", "abort"}
      THEN (CASE suggested_recovery = "relocate" -> "recover_relocate"
              [] suggested_recovery = "reload_context" -> "recover_reload_context"
              [] suggested_recovery = "revise_edits" -> "recover_revise_edits"
              [] suggested_recovery = "abort" -> "recover_abort")
      ELSE "recover_unknown"

\* An abort that hands back the applied set
AbortKeepsApplied(applied) == applied

\* The value returned by the abort branch: `return {"edits": []}`
AbortResult(applied) == <<>>

\* The structured verifier runs when recovery is enabled and the agent exists
StructuredVerify == deps.verify_recover_enabled /\ deps.edit_verify_structured_agent

\* The store checks the edited ids when there is a store and an id to check
DbChecked ==
    /\ deps.store
    /\ \E i \in DOMAIN EditsOrEmpty(state.applied_edits) :
          EditsOrEmpty(state.applied_edits)[i].elementId # ""

\* One VERIFY round for given collaborator outputs: whether the store
\* reports an invalid id, the verifier's ok, whether it lists issues, and the
\* recovery it suggests. Local checks, store id check, verifier call; success
\* falls through to FINISH in the same iteration, failure dispatches the
\* recovery.
VerifyRound(db_invalid, verifier_ok, verifier_issues, verifier_recovery) ==
    /\ Enters("verify")
    /\ LET applied == EditsOrEmpty(state.applied_edits)
           structured == StructuredVerify
           local_issues == StructuralIssues(applied, AllowedIds(state))
       IN   LET db_issues == IF db_invalid THEN {"invalid_ids"} ELSE {}
                agent_issues ==
                    IF structured
                      THEN (IF verifier_issues THEN {"verifier_issue"} ELSE {})
                      ELSE (IF ~verifier_ok /\ verifier_issues THEN {"verify_text"} ELSE {})
                issues == local_issues \cup db_issues \cup agent_issues
                suggested_recovery == verifier_recovery
                failed == issues # {} \/ ~verifier_ok
                s1 == [Tick(state) EXCEPT !.verify_attempts = @ + 1]
                c1 == TodoUpdate(RunChecklist, "verify", "in_progress")
            IN  IF ~failed
                     THEN /\ state' = s1
                          /\ decision' = "verify"
                          /\ status' = "verify_complete"
                          /\ events' = EmitApplyDone(events)
                          /\ todo' = Recorded(TodoFinishSweep(
                                TodoUpdates(c1, <<(<<"verify", "done">>), (<<"finish", "done">>)>>),
                                EditFallbackTodos))
                          /\ Return(EditsOrEmpty(s1.applied_edits))
                   ELSE IF ~deps.verify_recover_enabled
                     THEN /\ state' = [s1 EXCEPT !.applied_edits = None]
                          /\ decision' = "backtrack_to_refine"
                          /\ status' = "issues_found"
                          /\ events' = events
                          /\ todo' = Recorded(c1)
                          /\ Continue
                   ELSE IF suggested_recovery = "relocate"
                     THEN /\ state' = Relocate(s1)
                          /\ decision' = "recover_relocate"
                          /\ status' = "issues_found"
                          /\ events' = events
                          /\ todo' = Recorded(c1)
                          /\ Continue
                   ELSE IF suggested_recovery = "reload_context"
                     THEN /\ state' = ReloadContext(s1)
                          /\ decision' = "recover_reload_context"
                          /\ status' = "issues_found"
                          /\ events' = events
                          /\ todo' = Recorded(c1)
                          /\ Continue
                   ELSE IF suggested_recovery = "revise_edits" /\ deps.edit_revise_edits_agent
                     THEN /\ \E revise_data \in RawEditData :
                              LET revised == CoerceEditResponse(revise_data)
                              IN  state' = [s1 EXCEPT !.applied_edits =
                                      IF IsNone(revised) THEN Some(applied) ELSE revised]
                          /\ decision' = "recover_revise_edits"
                          /\ status' = "issues_found"
                          /\ events' = events
                          /\ todo' = Recorded(c1)
                          /\ Continue
                   ELSE /\ state' = s1
                        /\ decision' = RecoverDecision(suggested_recovery)
                        /\ status' = ExitStatus(status, "verify_abort")
                        /\ events' = EmitApplyDone(events)
                        /\ todo' = Recorded(TodoFinishSweep(c1, EditFallbackTodos))
                        /\ Return(AbortResult(applied))
    /\ UNCHANGED <<loop, budgets, deps>>

\* VERIFY with the collaborator outputs drawn
Verify ==
    /\ Enters("verify")
    /\ \E db_invalid \in (IF DbChecked THEN BOOLEAN ELSE {FALSE}),
          verifier_ok \in BOOLEAN, verifier_issues \in BOOLEAN,
          verifier_recovery \in (IF StructuredVerify THEN Recoveries ELSE {"revise_edits"}) :
           VerifyRound(db_invalid, verifier_ok, verifier_issues, verifier_recovery)

\* FINISH without a VERIFY round (the verify attempts are used up).
Finish ==
    /\ Enters("finish")
    /\ state' = Tick(state)
    /\ events' = EmitApplyDone(events)
    /\ todo' = Recorded(TodoFinishSweep(TodoUpdate(RunChecklist, "finish", "done"),
                                        EditFallbackTodos))
    /\ Return(EditsOrEmpty(state.applied_edits))
    /\ UNCHANGED <<loop, budgets, deps, decision, status>>

\* The code after the while loop of run_edit_loop: a status event, then
\* todo_finish_sweep(), a closure that is bound only once the loop body ran.
EditBudgetExceeded ==
    /\ loop = "edit"
    /\ pc = "loop"
    /\ ~(state.iterations < budgets.max_iterations)
    /\ status' = ExitStatus(status, "budget_exceeded")
    /\ IF state.iterations = 0
         THEN pc' = "raised" /\ result' = None /\ todo' = todo
         ELSE /\ todo' = Recorded(TodoFinishSweep(RunChecklist, EditFallbackTodos))
              /\ Return(<<>>)
    /\ UNCHANGED <<loop, budgets, deps, state, decision, events>>

EditNext ==
    \/ PlanIntent
    \/ Locate
    \/ LoadContext
    \/ Synthesize
    \/ Propose
    \/ Refine
    \/ Verify
    \/ Finish
    \/ EditBudgetExceeded

\* ------------------------------------------------------------------------
\* Recovery runs: the default iteration budget (EditLoopBudgets.max_iterations
\* = 20), structured verification with recovery enabled, a store and a
\* context window, and larger refine/verify budgets, so that a run can go
\* through several recoveries.
\* ------------------------------------------------------------------------
DefaultMaxIterations == 20

InitRecover ==
    /\ loop = "edit"
    /\ budgets \in [max_iterations : {DefaultMaxIterations},
                    max_locate_attempts : 0..MaxLocateBudget,
                    max_refine_attempts : 0..MaxRefineDeep,
                    max_verify_attempts : 0..MaxVerifyDeep]
    /\ deps \in [scene_context : {"window"},
                 store : {TRUE},
                 verify_recover_enabled : {TRUE},
                 edit_verify_structured_agent : {TRUE},
                 edit_revise_edits_agent : BOOLEAN]
    /\ state = EditLoopState(<<>>)
    /\ pc = "loop"
    /\ result = None
    /\ decision = "none"
    /\ status = "start"
    /\ events = EditEvents
    /\ todo = NoTodo(EditTodoIds)

SpecRecover == InitRecover /\ [][EditNext]_vars

\* ------------------------------------------------------------------------
\* Ask Loop
\* ------------------------------------------------------------------------
\* AskLoopBudgets; the retrieval sizes are scaled to the two-element id universe.
AskBudgets ==
    [max_iterations : 0..MaxIterBudget,
     max_retrieve_attempts : 0..MaxRetrieveBudget,
     max_candidates : {2},
     rerank_select_min : {1},
     rerank_select_max : {2}]

\* The collaborators of an Ask run: context window, global index, store, and
\* for each optional step whether its flag is on and its agent exists.
AskDeps ==
    [scene_context : {"", "window"},
     global_index : {"", "index"},
     store : BOOLEAN,
     ask_plan : BOOLEAN,
     ask_rerank : BOOLEAN,
     ask_grounding_gate : BOOLEAN]

\* AskLoopState as constructed by the caller
AskLoopState ==
    [retrieve_attempts |-> 0,
     iterations |-> 0,
     retrieved_context |-> None,
     evidence_element_ids |-> <<>>,
     plan |-> None]

\* No tool called yet; calls is the set of tools named in tool_call events.
AskEvents == [calls |-> {}]

\* A plan object as the loop reads it; `empty` is the {} of an unparsable plan.
\* Only a clarify plan is read for its clarifying_questions.
EmptyPlan == [empty |-> TRUE, next_action |-> "retrieve", use_context |-> TRUE,
              must_include |-> <<>>, clarifying_questions |-> <<>>]
PlanObjs ==
    {EmptyPlan} \cup
    [empty : {FALSE}, next_action : {"retrieve", "answer_direct"},
     use_context : BOOLEAN, must_include : IdLists, clarifying_questions : {<<>>}] \cup
    [empty : {FALSE}, next_action : {"clarify"},
     use_context : BOOLEAN, must_include : IdLists, clarifying_questions : QuestionLists]

\* The fixed message returned when the iteration budget is used up
AskBudgetMessage == "I couldn't complete that request within the iteration budget."

\* The question run_ask_loop asks when the planner gave none
AskDefaultQuestion == -2

\* "\n- ".join(questions), question k written "qk"
RECURSIVE JoinQuestions(_)
JoinQuestions(qs) ==
    IF qs = <<>> THEN "" ELSE "\n- q" \o ToString(Head(qs)) \o JoinQuestions(Tail(qs))

ClarifyHeader == "Could you clarify:"

\* The clarify return value: the header and questions[:3]
AskClarifyMessage(qs) ==
    ClarifyHeader \o
    JoinQuestions(Take(IF NonBlank(qs) = <<>> THEN <<AskDefaultQuestion>> ELSE NonBlank(qs), 3))

\* A planner whose clarify is not acted on
IsClarifyNever(next_action) == FALSE

\* next_action in ("clarify", "need_more", "need_more_info")
IsClarify(next_action) == next_action \in {"clarify", "need_more", "need_more_info"}

\* next_action in ("answer_direct", "answer", "direct")
IsAnswerDirect(next_action) == next_action \in {"answer_direct", "answer", "direct"}

RECURSIVE DedupeFrom(_, _)
DedupeFrom(items, out) ==
    IF items = <<>> THEN out
    ELSE DedupeFrom(Tail(items),
                    IF Head(items) \in Range(out) THEN out ELSE Append(out, Head(items)))

DedupeKeepsAll(items) == items
\* _dedupe_preserve_order
DedupePreserveOrder(items) == DedupeFrom(items, <<>>)

MustIncludeMax == 12
ChosenCap == 25

\* must: the plan's coverage ids, deduplicated and capped
CoverageIds(must_include) == Take(DedupePreserveOrder(must_include), MustIncludeMax)

\* The candidate pool: must ids and vector hits, deduplicated and capped at
\* max_candidates; the keyword hits when that is empty.
CandidateIds(must, vec_ids, db_ids, b) ==
    LET merged == Take(DedupePreserveOrder(must \o vec_ids), b.max_candidates)
    IN  IF merged = <<>> THEN db_ids ELSE merged

\* An evidence selection without the cut to rerank_select_max
ChooseEvidenceUncut(candidate_ids, selected, must, b) ==
    LET reranked == IF selected # <<>> THEN selected ELSE candidate_ids
        covered == IF must # <<>> THEN DedupePreserveOrder(must \o reranked) ELSE reranked
        capped == Take(DedupePreserveOrder(covered), ChosenCap)
    IN  IF Len(capped) < b.rerank_select_min
          THEN Take(candidate_ids, b.rerank_select_min) ELSE capped

\* The evidence ids chosen from the candidates, the reranker's selection and
\* the must-include ids.
ChooseEvidence(candidate_ids, selected, must, b) ==
    LET reranked == IF selected # <<>> THEN selected ELSE candidate_ids
        covered == IF must # <<>> THEN DedupePreserveOrder(must \o reranked) ELSE reranked
        capped == Take(DedupePreserveOrder(covered), ChosenCap)
        padded == IF Len(capped) < b.rerank_select_min
                    THEN Take(candidate_ids, b.rerank_select_min) ELSE capped
    IN  IF Len(padded) > b.rerank_select_max THEN Take(padded, b.rerank_select_max) ELSE padded

\* Context set when the planner chooses answer_direct
DirectContext(d, use_context) ==
    LET window == IF use_context THEN d.scene_context ELSE ""
    IN  IF d.global_index # "" /\ window # "" THEN "index+window"
        ELSE IF d.global_index # "" THEN "index"
        ELSE window

\* A fallback that prefers the global index
FallbackContextIndexFirst(d) == IF d.global_index # "" THEN "index" ELSE d.scene_context

\* Context set by the fallback at the end of RETRIEVE
FallbackContext(d) == IF d.scene_context # "" THEN "window" ELSE d.global_index

\* A router without the cap on RETRIEVE attempts
AskRouteUncapped(s, b) ==
    IF IsNone(s.retrieved_context) THEN "retrieve_context" ELSE "answer"

\* A router that takes an empty context for a missing one
AskRouteOnFalsyContext(s, b) ==
    IF (IsNone(s.retrieved_context) \/ Val(s.retrieved_context) = "")
          /\ s.retrieve_attempts < b.max_retrieve_attempts
      THEN "retrieve_context"
      ELSE "answer"

\* `if state.retrieved_context is None and state.retrieve_attempts <
\* budgets.max_retrieve_attempts` picks RETRIEVE, else ANSWER runs
AskRoute(s, b) ==
    IF IsNone(s.retrieved_context) /\ s.retrieve_attempts < b.max_retrieve_attempts
      THEN "retrieve_context"
      ELSE "answer"

AskEnters(phase) ==
    /\ loop = "ask"
    /\ pc = "loop"
    /\ state.iterations < budgets.max_iterations
    /\ AskRoute(state, budgets) = phase

\* `isinstance(state.plan, dict) and state.plan`: a usable plan is stored
PlanActive(plan) == ~IsNone(plan) /\ ~Val(plan).empty

\* state.todos: set with the plan, from the fallback list for its next_action
AskTodos(plan) ==
    IF PlanActive(plan) THEN AskFallbackTodos(IsAnswerDirect(Val(plan).next_action)) ELSE {}

\* A fallback that leaves state.retrieved_context unset
RetrievedFallbackUnset(d) == None
\* state.retrieved_context = "\n".join(fallback_ctx_parts).strip()
RetrievedFallback(d) == Some(FallbackContext(d))

\* The fallback at the end of RETRIEVE: the provided window or the global index
UseFallbackContext(s, called, c) ==
    /\ state' = [s EXCEPT !.retrieved_context = RetrievedFallback(deps)]
    /\ events' = [events EXCEPT !.calls = called]
    /\ todo' = Recorded(TodoUpdate(c, "retrieve", "skipped"))
    /\ decision' = "retrieve_context"
    /\ status' = IF deps.scene_context # "" THEN "using_window" ELSE "using_index"
    /\ Continue

\* Steps (0)-(9) of RETRIEVE after the plan has been read: query variants,
\* search terms, vector search, keyword search, rerank, context extraction,
\* grounding gate, fallback.  `called` are the tools called so far, c0 is the
\* checklist so far.
RetrieveEvidence(s, must_include, called, c0) ==
    \E has_terms \in BOOLEAN :
      LET called0 == called \cup {"llm.ask_query_variants", "llm.extract_search_terms"}
      IN
      IF deps.store /\ has_terms
        THEN \E vec_ids \in IdLists, db_ids \in IdLists :
               LET must == CoverageIds(must_include)
                   merged == Take(DedupePreserveOrder(must \o vec_ids), budgets.max_candidates)
                   candidate_ids == CandidateIds(must, vec_ids, db_ids, budgets)
                   called1 == called0 \cup {"vec_search"}
                                \cup (IF merged = <<>> THEN {"db_search"} ELSE {})
                   c1 == TodoUpdate(c0, "retrieve", "in_progress")
               IN  IF candidate_ids # <<>>
                     THEN \E selected \in (IF deps.ask_rerank THEN IdLists ELSE {<<>>}),
                             ctx \in {"", "context"} :
                            LET chosen_ids == ChooseEvidence(candidate_ids, selected, must, budgets)
                                s1 == [s EXCEPT !.evidence_element_ids = chosen_ids]
                                called2 == called1 \cup {"db_extract_context"}
                                    \cup (IF deps.ask_rerank THEN {"llm.ask_rerank"} ELSE {})
                                c2 == IF deps.ask_rerank THEN Worked(c1, "rerank") ELSE c1
                                c3 == TodoUpdate(c2, "retrieve", "done")
                                c4 == TodoUpdate(c3, "grounding", "in_progress")
                            IN  IF ctx # ""
                                  THEN \E rejected \in (IF deps.ask_grounding_gate
                                                          THEN BOOLEAN ELSE {FALSE}) :
                                         /\ state' = [s1 EXCEPT !.retrieved_context =
                                                         IF rejected THEN None ELSE Some(ctx)]
                                         /\ events' = [events EXCEPT !.calls = called2 \cup
                                                (IF deps.ask_grounding_gate
                                                   THEN {"llm.ask_grounding_check"} ELSE {})]
                                         /\ todo' = Recorded(
                                                IF ~deps.ask_grounding_gate THEN c3
                                                ELSE IF rejected THEN c4
                                                ELSE TodoUpdate(c4, "grounding", "done"))
                                         /\ decision' = IF deps.ask_grounding_gate
                                                          THEN "grounding_check"
                                                          ELSE "retrieve_context"
                                         /\ status' = IF rejected THEN "broadening"
                                                                  ELSE "loaded_evidence"
                                         /\ Continue
                                  ELSE UseFallbackContext(s1, called2, c2)
                     ELSE UseFallbackContext(s, called1, c1)
        ELSE UseFallbackContext(s, called0, c0)

\* RETRIEVE (with the optional PLAN on the first attempt)
Retrieve ==
    /\ AskEnters("retrieve_context")
    /\ LET s1 == [Tick(state) EXCEPT !.retrieve_attempts = @ + 1]
           planning == deps.ask_plan /\ IsNone(state.plan) /\ s1.retrieve_attempts = 1
       IN  \E plan_obj \in (IF planning THEN PlanObjs ELSE {EmptyPlan}) :
            LET plan == IF planning THEN Some(plan_obj) ELSE state.plan
                s2 == [s1 EXCEPT !.plan = plan]
                called == events.calls \cup (IF planning THEN {"llm.ask_plan"} ELSE {})
                c0 == IF PlanActive(plan) /\ ~PlanActive(state.plan)
                        THEN TodoUpdate(RunChecklist, "plan", "done")
                        ELSE RunChecklist
                active == ~IsNone(plan) /\ ~Val(plan).empty
                next_action == IF active THEN Val(plan).next_action ELSE "retrieve"
                must_include == IF active THEN Val(plan).must_include ELSE <<>>
            IN  IF IsClarify(next_action)
                  THEN /\ state' = s2
                       /\ events' = [events EXCEPT !.calls = called]
                       /\ todo' = Recorded(TodoFinishSweep(Worked(c0, "clarify"),
                                                           AskTodos(plan)))
                       /\ decision' = "clarify"
                       /\ status' = ExitStatus(status, "clarify")
                       /\ Return(AskClarifyMessage(Val(plan).clarifying_questions))
                ELSE IF IsAnswerDirect(next_action)
                  THEN /\ state' = [s2 EXCEPT !.retrieved_context =
                                       Some(DirectContext(deps, Val(plan).use_context))]
                       /\ events' = [events EXCEPT !.calls = called]
                       /\ todo' = Recorded(TodoUpdate(c0, "retrieve", "skipped"))
                       /\ decision' = "skip_retrieval"
                       /\ status' = "skipping_retrieval"
                       /\ Continue
                ELSE RetrieveEvidence(s2, must_include, called, c0)
    /\ UNCHANGED <<loop, budgets, deps>>

\* ANSWER: one model call; its text is the run's result.
Answer ==
    /\ AskEnters("answer")
    /\ state' = Tick(state)
    /\ events' = [events EXCEPT !.calls = @ \cup {"llm.ask_answer"}]
    /\ todo' = Recorded(TodoFinishSweep(Worked(RunChecklist, "answer"), AskTodos(state.plan)))
    /\ decision' = "answer"
    /\ status' = "drafting"
    /\ \E answer \in {"", "answer"} : Return(answer)
    /\ UNCHANGED <<loop, budgets, deps>>

\* The code after the while loop of run_ask_loop
AskBudgetExceeded ==
    /\ loop = "ask"
    /\ pc = "loop"
    /\ ~(state.iterations < budgets.max_iterations)
    /\ status' = ExitStatus(status, "budget_exceeded")
    /\ todo' = [todo EXCEPT !.last_emitted =
                    TodoFinishSweep(RunChecklist, AskTodos(state.plan)).todo_status]
    /\ Return(AskBudgetMessage)
    /\ UNCHANGED <<loop, budgets, deps, state, decision, events>>

InitAsk ==
    /\ loop = "ask"
    /\ budgets \in AskBudgets
    /\ deps \in AskDeps
    /\ state = AskLoopState
    /\ pc = "loop"
    /\ result = None
    /\ decision = "none"
    /\ status = "start"
    /\ events = AskEvents
    /\ todo = NoTodo(AskTodoIds)

\* ------------------------------------------------------------------------
\* Evidence selection of one RETRIEVE attempt, on its own: the inputs are the
\* plan's coverage ids, the vector and keyword hits and the reranker's
\* selection (empty when it returned nothing or is switched off).
\* ------------------------------------------------------------------------
PoolLists == SeqsUpTo(Ids, MaxPool)

\* The plan's coverage.must_include_element_ids (and scene ids)
MustLists == SeqsUpTo(Ids, MaxMust)

EvidenceBudgets ==
    {b \in [max_candidates : 1..MaxPool,
            rerank_select_min : 1..MaxPool,
            rerank_select_max : 1..MaxPool] : b.rerank_select_min <= b.rerank_select_max}

InitEvidence ==
    /\ loop = "evidence"
    /\ budgets \in EvidenceBudgets
    /\ deps = [store |-> TRUE]
    /\ state \in [must_include : MustLists, vec_ids : PoolLists, db_ids : PoolLists,
                   selected : PoolLists, candidate_ids : {<<>>},
                   evidence_element_ids : {<<>>}]
    /\ pc = "search"
    /\ result = None
    /\ decision = "retrieve_context"
    /\ status = "start"
    /\ events = AskEvents
    /\ todo = NoTodo(AskTodoIds)

\* Steps (1)-(2): vector search per variant, keyword search when it found nothing
GatherCandidates ==
    /\ loop = "evidence"
    /\ pc = "search"
    /\ state' = [state EXCEPT !.candidate_ids =
                    CandidateIds(CoverageIds(state.must_include), state.vec_ids,
                                 state.db_ids, budgets)]
    /\ pc' = "rerank"
    /\ UNCHANGED <<loop, budgets, deps, result, decision, status, events, todo>>

\* Steps (3)-(4): `if candidate_ids:` rerank, coverage, clamp
SelectEvidence ==
    /\ loop = "evidence"
    /\ pc = "rerank"
    /\ state.candidate_ids # <<>>
    /\ LET chosen_ids == ChooseEvidence(state.candidate_ids, state.selected,
                                        CoverageIds(state.must_include), budgets)
       IN  /\ state' = [state EXCEPT !.evidence_element_ids = chosen_ids]
           /\ result' = Some(chosen_ids)
    /\ pc' = "returned"
    /\ decision' = "rerank"
    /\ UNCHANGED <<loop, budgets, deps, status, events, todo>>

EvidenceNext == GatherCandidates \/ SelectEvidence

SpecEvidence == InitEvidence /\ [][EvidenceNext]_vars

\* ------------------------------------------------------------------------
\* The checklist on its own: a run makes todo_update calls one after another;
\* events counts the todo_update events emitted and keeps the arguments of
\* the last two calls.
\* ------------------------------------------------------------------------
ChecklistIds == {"retrieve", "answer"}
CallIds == ChecklistIds \cup {""}
CallStatuses == {"in_progress", "done", "skipped", ""}
NoCall == <<"", "">>

InitTodo ==
    /\ loop = "todo"
    /\ budgets = [max_calls |-> MaxTodoCalls]
    /\ deps = [store |-> FALSE]
    /\ state = [todo_status |-> NoTodoStatus(ChecklistIds)]
    /\ pc = "loop"
    /\ result = None
    /\ decision = "none"
    /\ status = "start"
    /\ events = [emitted |-> 0, calls_made |-> 0, call |-> NoCall, prev_call |-> NoCall]
    /\ todo = NoTodo(ChecklistIds)

\* await todo_update(todo_id, new_status)
TodoUpdateCall ==
    /\ loop = "todo"
    /\ pc = "loop"
    /\ events.calls_made < budgets.max_calls
    /\ \E todo_id \in CallIds, new_status \in CallStatuses :
         LET c == TodoUpdate(Checklist(state.todo_status, events.emitted, FALSE),
                             todo_id, new_status)
         IN  /\ state' = [state EXCEPT !.todo_status = c.todo_status]
             /\ events' = [emitted |-> c.emitted,
                           calls_made |-> events.calls_made + 1,
                           call |-> <<todo_id, new_status>>,
                           prev_call |-> events.call]
    /\ UNCHANGED <<loop, budgets, deps, pc, result, decision, status, todo>>

SpecTodo == InitTodo /\ [][TodoUpdateCall]_vars

\* ------------------------------------------------------------------------
\* _dedupe_preserve_order on its own, and the merge of the per-variant
\* search results that calls it
\* ------------------------------------------------------------------------
MaxItems == 5
MaxCandidates == 3
DedupeItems == {"a", "b", "c"}
ItemLists == SeqsUpTo(DedupeItems, MaxItems)

InitDedupe ==
    /\ loop = "dedupe"
    /\ budgets \in [max_candidates : 1..MaxCandidates]
    /\ deps = [store |-> TRUE]
    /\ state \in [items : ItemLists, out : {<<>>}, candidate_ids : {<<>>}]
    /\ pc = "call"
    /\ result = None
    /\ decision = "none"
    /\ status = "start"
    /\ events = AskEvents
    /\ todo = NoTodo(ChecklistIds)

\* out = _dedupe_preserve_order(items)
DedupeCall ==
    /\ loop = "dedupe"
    /\ pc = "call"
    /\ state' = [state EXCEPT !.out = DedupePreserveOrder(state.items)]
    /\ pc' = "deduped"
    /\ UNCHANGED <<loop, budgets, deps, result, decision, status, events, todo>>

\* candidate_ids = _dedupe_preserve_order(candidate_ids)[: budgets.max_candidates]
\* with state.items the must ids followed by each variant's hits
MergeCandidates ==
    /\ loop = "dedupe"
    /\ pc = "deduped"
    /\ state' = [state EXCEPT !.candidate_ids =
                    Take(DedupePreserveOrder(state.items), budgets.max_candidates)]
    /\ pc' = "merged"
    /\ UNCHANGED <<loop, budgets, deps, result, decision, status, events, todo>>

DedupeNext == DedupeCall \/ MergeCandidates

SpecDedupe == InitDedupe /\ [][DedupeNext]_vars

\* ------------------------------------------------------------------------
\* The query variants of a RETRIEVE attempt (step 0 of RETRIEVE), on their
\* own: the rewrite agent's list, the planner's list, the cap
\* ------------------------------------------------------------------------
MaxVariants == 3
MaxPlannerVariants == 2
MaxVariantBudget == 2

\* "q" is the user's question; lists hold non-blank strings (_safe_json_list
\* and the plan reader drop the blank ones)
VariantTexts == {"q", "x", "y"}
VariantLists == SeqsUpTo(VariantTexts, MaxVariants)
PlannerVariantLists == SeqsUpTo(VariantTexts, MaxPlannerVariants)

\* [question] + [v for v in variants if v != question] unless the question
\* is already first
QuestionFirst(question, variants) ==
    LET other(v) == v # question
    IN  IF Head(variants) # question
          THEN <<question>> \o SelectSeq(variants, other)
          ELSE variants

\* if not variants: variants = [state.question]; then the question first
RewrittenVariants(question, variants) ==
    QuestionFirst(question, IF variants = <<>> THEN <<question>> ELSE variants)

\* the planner's variants are merged in (and the whole list deduplicated)
\* only when there are any; then the cap
MergedVariants(variants, question, planner_variants, cap) ==
    Take(IF planner_variants # <<>>
           THEN DedupePreserveOrder(variants \o QuestionFirst(question, planner_variants))
           ELSE variants,
         cap)

\* budgets.max_query_variants_broaden if broaden else budgets.max_query_variants
VariantCap(b, retrieve_attempts) ==
    IF retrieve_attempts > 1 THEN b.max_query_variants_broaden
                             ELSE b.max_query_variants

InitVariants ==
    /\ loop = "variants"
    /\ budgets \in {b \in [max_query_variants : 1..MaxVariantBudget,
                            max_query_variants_broaden : 1..(MaxVariantBudget + 1)] :
                        b.max_query_variants <= b.max_query_variants_broaden}
    /\ deps \in [ask_query_variants_agent : BOOLEAN]
    /\ state \in [question : {"q"},
                   retrieve_attempts : 1..2,
                   planner_variants : PlannerVariantLists,
                   variants : {<<>>}]
    /\ pc = "rewrite"
    /\ result = None
    /\ decision = "retrieve_context"
    /\ status = "start"
    /\ events = AskEvents
    /\ todo = NoTodo(ChecklistIds)

\* the rewrite agent's variants (none without the agent), question first
RewriteQueries ==
    /\ loop = "variants"
    /\ pc = "rewrite"
    /\ \E agent_variants \in (IF deps.ask_query_variants_agent
                                THEN VariantLists ELSE {<<>>}) :
          state' = [state EXCEPT !.variants =
                        RewrittenVariants(state.question, agent_variants)]
    /\ decision' = "rewrite_queries"
    /\ pc' = "merge"
    /\ UNCHANGED <<loop, budgets, deps, result, status, events, todo>>

\* merge the planner's variants, then cap
MergePlannerVariants ==
    /\ loop = "variants"
    /\ pc = "merge"
    /\ state' = [state EXCEPT !.variants =
                    MergedVariants(state.variants, state.question,
                                   state.planner_variants,
                                   VariantCap(budgets, state.retrieve_attempts))]
    /\ pc' = "search"
    /\ UNCHANGED <<loop, budgets, deps, result, decision, status, events, todo>>

VariantsNext == RewriteQueries \/ MergePlannerVariants

SpecVariants == InitVariants /\ [][VariantsNext]_vars

\* ------------------------------------------------------------------------
\* Runs with the default budgets of AskLoopBudgets and EditLoopBudgets, for
\* every combination of collaborators
\* ------------------------------------------------------------------------
DefaultAskMaxIterations == 12
DefaultMaxRetrieveAttempts == 2
DefaultMaxLocateAttempts == 3
DefaultMaxRefineAttempts == 2
RaisedMaxVerifyAttempts == DefaultMaxRefineAttempts + 1
DefaultMaxVerifyAttempts == 2

\* iteration budgets just below what the default attempt budgets can use,
\* for comparison
ShortEditIterations == DefaultMaxIterations - 3
ShortAskIterations == DefaultMaxRetrieveAttempts

InitEditDefaults ==
    /\ loop = "edit"
    /\ \E max_iterations \in {DefaultMaxIterations, ShortEditIterations} :
         budgets = [max_iterations |-> max_iterations,
                    max_locate_attempts |-> DefaultMaxLocateAttempts,
                    max_refine_attempts |-> DefaultMaxRefineAttempts,
                    max_verify_attempts |-> DefaultMaxVerifyAttempts]
    /\ deps \in EditDeps
    /\ \E anchors \in AnchorLists : state = EditLoopState(anchors)
    /\ pc = "loop"
    /\ result = None
    /\ decision = "none"
    /\ status = "start"
    /\ events = EditEvents
    /\ todo = NoTodo(EditTodoIds)

\* the retrieval sizes stay at the small values of AskBudgets
InitAskDefaults ==
    /\ loop = "ask"
    /\ \E max_iterations \in {DefaultAskMaxIterations, ShortAskIterations} :
         budgets = [max_iterations |-> max_iterations,
                    max_retrieve_attempts |-> DefaultMaxRetrieveAttempts,
                    max_candidates |-> 2,
                    rerank_select_min |-> 1,
                    rerank_select_max |-> 2]
    /\ deps \in AskDeps
    /\ state = AskLoopState
    /\ pc = "loop"
    /\ result = None
    /\ decision = "none"
    /\ status = "start"
    /\ events = AskEvents
    /\ todo = NoTodo(AskTodoIds)

\* ------------------------------------------------------------------------
\* stream_chat (services/llm_service.py): the run is an asyncio task that
\* feeds an event queue through emit; the caller drains the queue, then
\* awaits the task and yields the final payload, or falls back to the
\* legacy single-pass path when the task raised.
\* ------------------------------------------------------------------------
MaxSteps == 3
MaxPolls == 1

\* what a run does between its start and its return: emit an event of a
\* given type, call a model agent, call the store (DBService)
RunSteps == {"emit_status", "emit_decision", "model_call", "store_call"}
RunScripts == SeqsUpTo(RunSteps, MaxSteps)

EventType(step) == IF step = "emit_status" THEN "status" ELSE "decision"

\* streaming.format_buffer_item: typed streams render every event, legacy
\* streams only the status-like ones
FormatBufferItem(evt, stream_events) ==
    IF stream_events THEN Some(evt)
    ELSE IF evt.type = "status" THEN Some(evt)
    ELSE None

\* queue = asyncio.Queue(): no maxsize, so put never waits
EmitBlockedWhenFull(queue) == Len(queue) >= 1
EmitBlocked(queue) == FALSE

\* if loop_task.done() and queue.empty(): break
DrainMayExitOnDone(task, queue) == task # "running"
DrainMayExit(task, queue) == task # "running" /\ queue = <<>>

\* DBService methods catch every exception and return an empty result;
\* an agent's run raises into the loop, which has no handler
FailureRaises(kind) == kind = "model_call"

InitStream ==
    /\ loop = "stream"
    /\ budgets = [max_steps |-> MaxSteps, max_polls |-> MaxPolls]
    /\ \E mode \in {"ask", "edit"}, stream_events \in BOOLEAN :
         deps = [mode |-> mode, stream_events |-> stream_events]
    /\ \E script \in RunScripts :
         state = [script |-> script,
                  task |-> "running",
                  queue |-> <<>>,
                  emitted |-> <<>>,
                  delivered |-> <<>>,
                  yielded |-> <<>>,
                  calls |-> 0,
                  failure |-> "none",
                  polls |-> 0]
    /\ pc = "drain"
    /\ result = None
    /\ decision = "none"
    /\ status = "start"
    /\ events = AskEvents
    /\ todo = NoTodo(ChecklistIds)

StreamUnchanged == UNCHANGED <<loop, budgets, deps, decision, events, todo>>

\* await emit(evt): ... await queue.put(evt)
RunEmit ==
    /\ loop = "stream"
    /\ state.task = "running"
    /\ state.script # <<>>
    /\ Head(state.script) \in {"emit_status", "emit_decision"}
    /\ ~EmitBlocked(state.queue)
    /\ LET evt == [n |-> Len(state.emitted) + 1,
                   type |-> EventType(Head(state.script))]
       IN  state' = [state EXCEPT !.script = Tail(@),
                                  !.queue = Append(@, evt),
                                  !.emitted = Append(@, evt)]
    /\ UNCHANGED <<pc, result, status>>
    /\ StreamUnchanged

\* a collaborator call that returns
RunCall ==
    /\ loop = "stream"
    /\ state.task = "running"
    /\ state.script # <<>>
    /\ Head(state.script) \in {"model_call", "store_call"}
    /\ state' = [state EXCEPT !.script = Tail(@), !.calls = @ + 1]
    /\ UNCHANGED <<pc, result, status>>
    /\ StreamUnchanged

\* a collaborator call that fails
RunCallFails ==
    /\ loop = "stream"
    /\ state.task = "running"
    /\ state.script # <<>>
    /\ Head(state.script) \in {"model_call", "store_call"}
    /\ state.failure = "none"
    /\ IF FailureRaises(Head(state.script))
       THEN state' = [state EXCEPT !.script = <<>>,
                                   !.calls = @ + 1,
                                   !.failure = Head(state.script),
                                   !.task = "raised"]
       ELSE state' = [state EXCEPT !.script = Tail(@),
                                   !.calls = @ + 1,
                                   !.failure = Head(state.script)]
    /\ UNCHANGED <<pc, result, status>>
    /\ StreamUnchanged

\* the run returns its answer or its edits
RunReturns ==
    /\ loop = "stream"
    /\ state.task = "running"
    /\ state.script = <<>>
    /\ state' = [state EXCEPT !.task = "done"]
    /\ UNCHANGED <<pc, result, status>>
    /\ StreamUnchanged

RunStep == RunEmit \/ RunCall \/ RunCallFails \/ RunReturns

\* evt = await asyncio.wait_for(queue.get(), timeout=0.1); yield rendered
DrainGet ==
    /\ loop = "stream"
    /\ pc = "drain"
    /\ ~DrainMayExit(state.task, state.queue)
    /\ state.queue # <<>>
    /\ LET evt == Head(state.queue)
           rendered == FormatBufferItem(evt, deps.stream_events)
       IN  state' = [state EXCEPT !.queue = Tail(@),
                                  !.delivered = Append(@, evt),
                                  !.yielded = IF IsNone(rendered) THEN @
                                              ELSE Append(@, Val(rendered))]
    /\ UNCHANGED <<pc, result, status>>
    /\ StreamUnchanged

\* except asyncio.TimeoutError: continue
DrainTimeout ==
    /\ loop = "stream"
    /\ pc = "drain"
    /\ ~DrainMayExit(state.task, state.queue)
    /\ state.queue = <<>>
    /\ state.polls < budgets.max_polls
    /\ state' = [state EXCEPT !.polls = @ + 1]
    /\ UNCHANGED <<pc, result, status>>
    /\ StreamUnchanged

\* break
DrainExit ==
    /\ loop = "stream"
    /\ pc = "drain"
    /\ DrainMayExit(state.task, state.queue)
    /\ pc' = "await_task"
    /\ UNCHANGED <<state, result, status>>
    /\ StreamUnchanged

\* answer = await loop_task; yield the final payload; return
YieldFinal ==
    /\ loop = "stream"
    /\ pc = "await_task"
    /\ state.task = "done"
    /\ result' = Some("final")
    /\ pc' = "returned"
    /\ UNCHANGED <<state, status>>
    /\ StreamUnchanged

\* except Exception: log (the Edit branch also yields an error status) and
\* fall through to the legacy agents
FallBackToLegacy ==
    /\ loop = "stream"
    /\ pc = "await_task"
    /\ state.task = "raised"
    /\ status' = IF deps.mode = "edit" THEN "edit_loop_failed" ELSE status
    /\ pc' = "legacy"
    /\ UNCHANGED <<state, result>>
    /\ StreamUnchanged

\* the legacy single-pass agent produces the payload
LegacyRun ==
    /\ loop = "stream"
    /\ pc = "legacy"
    /\ result' = Some("legacy")
    /\ pc' = "returned"
    /\ UNCHANGED <<state, status>>
    /\ StreamUnchanged

StreamNext ==
    \/ RunEmit
    \/ RunCall
    \/ RunCallFails
    \/ RunReturns
    \/ DrainGet
    \/ DrainTimeout
    \/ DrainExit
    \/ YieldFinal
    \/ FallBackToLegacy
    \/ LegacyRun

SpecStream == InitStream /\ [][StreamNext]_vars

\* the event loop schedules the run task whenever it is ready, whatever the
\* caller does
FairStream == SpecStream /\ WF_vars(RunStep)

\* ------------------------------------------------------------------------
\* LLMService._maybe_trigger_embed_backfill called by concurrent requests.
\* Each caller is a coroutine of the one event loop: it runs without
\* interruption from one await to the next, and other coroutines run at its
\* awaits. The clock counts in units of EMBED_AUTO_MIN_INTERVAL_SECONDS.
\* ------------------------------------------------------------------------
MaxCallers == 2
MaxClock == 2
MinInterval == 1

Callers == 1..MaxCallers
ProjectIds == {"p1", "p2"}

\* a coroutine that is not inside _maybe_trigger_embed_backfill
IdleCaller == [at |-> "idle", project_id |-> "", now |-> 0, emb_count |-> 0]

\* `(now - last) < min_interval_s` with last = 0.0 for a project never
\* started: time.time() is far beyond the interval
InCooldown(last_started, project_id, now) ==
    /\ last_started[project_id] # None
    /\ now - last_started[project_id][1] < MinInterval

\* the staleness heuristics; row is None when the project row could not be
\* read, newer says updated_at exceeds the newest embedding by the grace time
Stale(emb_count, row) ==
    \/ emb_count <= 0
    \/ /\ row # None
       /\ \/ row[1].n_elements # 0 /\ emb_count < row[1].n_elements
          \/ row[1].newer

ProjectRows ==
    {None} \cup {Some([n_elements |-> n, newer |-> b]) : n \in 0..2, b \in BOOLEAN}

InitBackfill ==
    /\ loop = "backfill"
    /\ budgets = [max_clock |-> MaxClock]
    /\ \E embedding_service \in BOOLEAN, auto \in BOOLEAN, db_pool \in BOOLEAN :
         deps = [embedding_service |-> embedding_service,
                 auto |-> auto,
                 db_pool |-> db_pool]
    /\ state = [callers |-> [c \in Callers |-> IdleCaller],
                embed_backfill_inflight |-> {},
                embed_backfill_last_started |-> [p \in ProjectIds |-> None],
                tasks |-> [p \in ProjectIds |-> 0],
                clock |-> 0]
    /\ pc = "serving"
    /\ result = None
    /\ decision = "none"
    /\ status = "start"
    /\ events = AskEvents
    /\ todo = NoTodo(ChecklistIds)

BackfillUnchanged ==
    UNCHANGED <<loop, budgets, deps, pc, result, decision, status, events, todo>>

\* the guards that decide whether the call goes on to read the statistics
BackfillGuardsPass(project_id, now) ==
    /\ deps.embedding_service
    /\ deps.auto
    /\ project_id # ""
    /\ project_id \notin state.embed_backfill_inflight
    /\ ~InCooldown(state.embed_backfill_last_started, project_id, now)

\* entry up to `await self.embedding_service.get_project_embedding_stats`
BackfillEnter(c) ==
    /\ loop = "backfill"
    /\ state.callers[c].at = "idle"
    /\ \E project_id \in ProjectIds \cup {""} :
         state' = [state EXCEPT !.callers[c] =
                     IF BackfillGuardsPass(project_id, state.clock)
                       THEN [at |-> "await_stats", project_id |-> project_id,
                             now |-> state.clock, emb_count |-> 0]
                       ELSE IdleCaller]
    /\ BackfillUnchanged

\* the statistics arrive (a failure counts as no embeddings); up to
\* `await self._ensure_db_pool()`
BackfillStats(c) ==
    /\ loop = "backfill"
    /\ state.callers[c].at = "await_stats"
    /\ \E emb_count \in 0..2 :
         state' = [state EXCEPT !.callers[c].at = "await_pool",
                                !.callers[c].emb_count = emb_count]
    /\ BackfillUnchanged

\* _ensure_db_pool returns; without a pool the call returns, with one it goes
\* on to `await self.db_pool.fetchrow`; a failure leaves row = None and goes
\* on after the try block, which has no further await before the fetch result
BackfillPool(c) ==
    /\ loop = "backfill"
    /\ state.callers[c].at = "await_pool"
    /\ state' = [state EXCEPT !.callers[c] =
                    IF deps.db_pool THEN [@ EXCEPT !.at = "await_row"]
                                    ELSE IdleCaller]
    /\ BackfillUnchanged

\* the row arrives (None on failure); the rest of the function runs without
\* an await: staleness, the two registrations and asyncio.create_task
BackfillSchedule(c) ==
    /\ loop = "backfill"
    /\ state.callers[c].at = "await_row"
    /\ \E row \in ProjectRows, scheduled \in BOOLEAN :
         LET me == state.callers[c]
             project_id == me.project_id
         IN  IF ~Stale(me.emb_count, row)
               THEN state' = [state EXCEPT !.callers[c] = IdleCaller]
               ELSE state' =
                      [state EXCEPT
                         !.callers[c] = IdleCaller,
                         !.embed_backfill_last_started[project_id] = Some(me.now),
                         !.embed_backfill_inflight =
                             IF scheduled THEN @ \cup {project_id}
                                          ELSE @ \ {project_id},
                         !.tasks[project_id] = IF scheduled THEN @ + 1 ELSE @]
    /\ BackfillUnchanged

\* _run ends, whether embed_project_elements succeeded or failed
BackfillTaskEnds ==
    /\ loop = "backfill"
    /\ \E project_id \in ProjectIds :
         /\ state.tasks[project_id] > 0
         /\ state' = [state EXCEPT !.tasks[project_id] = @ - 1,
                                   !.embed_backfill_inflight = @ \ {project_id}]
    /\ BackfillUnchanged

\* time passes
BackfillClock ==
    /\ loop = "backfill"
    /\ state.clock < budgets.max_clock
    /\ state' = [state EXCEPT !.clock = @ + 1]
    /\ BackfillUnchanged

BackfillNext ==
    \/ \E c \in Callers : BackfillEnter(c)
    \/ \E c \in Callers : BackfillStats(c)
    \/ \E c \in Callers : BackfillPool(c)
    \/ \E c \in Callers : BackfillSchedule(c)
    \/ BackfillTaskEnds
    \/ BackfillClock

SpecBackfill == InitBackfill /\ [][BackfillNext]_vars

\* ------------------------------------------------------------------------
\* DBService.ensure_pool called by concurrent coroutines, directly by a
\* DBService method or through LLMService._ensure_db_pool. Pools are numbered
\* in the order asyncpg.create_pool returns them.
\* ------------------------------------------------------------------------
MaxPoolCallers == 2
MaxPools == 3

PoolCallers == 1..MaxPoolCallers

\* `if self.pool is not None: return`
EnsurePoolSkips(pool) == pool # None

\* self.db_pool = self.db.pool, for a caller that came through LLMService
EnsureDbPool(via, db_pool, pool) == IF via = "llm" THEN pool ELSE db_pool

InitPool ==
    /\ loop = "pool"
    /\ budgets = [max_pools |-> MaxPools]
    /\ deps = [callers |-> PoolCallers]
    /\ state = [pool |-> None,
                db_pool |-> None,
                created |-> 0,
                callers |-> [c \in PoolCallers |-> [at |-> "idle", via |-> "db"]]]
    /\ pc = "serving"
    /\ result = None
    /\ decision = "none"
    /\ status = "start"
    /\ events = AskEvents
    /\ todo = NoTodo(ChecklistIds)

PoolUnchanged ==
    UNCHANGED <<loop, budgets, deps, pc, result, decision, status, events, todo>>

\* ensure_pool up to `await asyncpg.create_pool(...)`, or its early return
EnsurePoolEnter(c) ==
    /\ loop = "pool"
    /\ state.callers[c].at = "idle"
    /\ state.created < budgets.max_pools
    /\ \E via \in {"db", "llm"} :
         IF EnsurePoolSkips(state.pool)
           THEN state' = [state EXCEPT
                            !.callers[c] = [at |-> "idle", via |-> via],
                            !.db_pool = EnsureDbPool(via, @, state.pool)]
           ELSE state' = [state EXCEPT
                            !.callers[c] = [at |-> "create_pool", via |-> via]]
    /\ PoolUnchanged

\* asyncpg.create_pool returns a new pool, which is assigned to self.pool
EnsurePoolCreated(c) ==
    /\ loop = "pool"
    /\ state.callers[c].at = "create_pool"
    /\ LET new_pool == Some(state.created + 1)
       IN  state' = [state EXCEPT
                       !.created = @ + 1,
                       !.pool = new_pool,
                       !.db_pool = EnsureDbPool(state.callers[c].via, @, new_pool),
                       !.callers[c].at = "idle"]
    /\ PoolUnchanged

\* asyncpg.create_pool raises: the handler logs and sets self.pool = None
EnsurePoolFails(c) ==
    /\ loop = "pool"
    /\ state.callers[c].at = "create_pool"
    /\ state' = [state EXCEPT
                    !.pool = None,
                    !.db_pool = EnsureDbPool(state.callers[c].via, @, None),
                    !.callers[c].at = "idle"]
    /\ PoolUnchanged

PoolNext ==
    \/ \E c \in PoolCallers : EnsurePoolEnter(c)
    \/ \E c \in PoolCallers : EnsurePoolCreated(c)
    \/ \E c \in PoolCallers : EnsurePoolFails(c)

SpecPool == InitPool /\ [][PoolNext]_vars

\* ------------------------------------------------------------------------
\* A run of either loop
\* ------------------------------------------------------------------------
Init == InitEdit \/ InitAsk

Next ==
    \/ PlanIntent
    \/ Locate
    \/ LoadContext
    \/ Synthesize
    \/ Propose
    \/ Refine
    \/ Verify
    \/ Finish
    \/ EditBudgetExceeded
    \/ Retrieve
    \/ Answer
    \/ AskBudgetExceeded

Spec == Init /\ [][Next]_vars

\* The scheduler runs the loop task until it returns or raises: every
\* collaborator call is awaited to completion, so an iteration that is
\* enabled is eventually taken.
FairSpec == Spec /\ WF_vars(Next)

\* Runs with the default attempt budgets
SpecDefaults == (InitEditDefaults \/ InitAskDefaults) /\ [][Next]_vars

\* ------------------------------------------------------------------------
\* Properties
\* ------------------------------------------------------------------------
\* The sentinel of a run that used up its iteration budget
BudgetSentinel == IF loop = "ask" THEN Some(AskBudgetMessage) ELSE Some(<<>>)

\* C1: in both loops iterations never exceeds max_iterations, for every
\* max_iterations >= 0, and a run that uses up the iteration budget returns
\* the sentinel (after the explanatory status event) without raising.
C1_IterationBudget ==
    /\ state.iterations <= budgets.max_iterations
    /\ pc # "raised"
    /\ (pc # "loop" /\ status = "budget_exceeded") =>
           (pc = "returned" /\ result = BudgetSentinel)

\* C2: every run of either loop terminates and returns one final value.
C2_ReturnsFinalValue == <>(pc = "returned" /\ ~IsNone(result))

\* A step of the Edit Loop that runs a VERIFY round
VerifyStep == loop = "edit" /\ state'.verify_attempts = state.verify_attempts + 1

\* A step of the Edit Loop that returns from the run
ReturnStep == loop = "edit" /\ pc = "loop" /\ pc' = "returned"

\* C3: run_edit_loop returns a non-empty edit set only from a VERIFY round
\* that checked exactly that set and passed; every other exit returns the
\* empty set.
C3_OnlyVerifiedEdits ==
    [][(ReturnStep /\ Val(result') # <<>>) =>
          /\ VerifyStep
          /\ status' = "verify_complete"
          /\ Val(result') = EditsOrEmpty(state.applied_edits)]_vars

\* C4: after a revise_edits recovery the run does not return the revised set
\* unless another VERIFY round checks it first.
C4_ReviseIsReverified ==
    [][(ReturnStep /\ decision = "recover_revise_edits" /\ status' # "budget_exceeded") =>
          VerifyStep]_vars

\* Runs in which every VERIFY round fails and dispatches relocate
VerifyRelocates == Verify /\ decision' = "recover_relocate"

NextRelocate ==
    \/ PlanIntent
    \/ Locate
    \/ LoadContext
    \/ Synthesize
    \/ Propose
    \/ Refine
    \/ VerifyRelocates
    \/ Finish
    \/ EditBudgetExceeded

SpecRelocate == InitRecover /\ [][NextRelocate]_vars

\* C5: when every VERIFY round fails with relocate, a run that has used all
\* its verify attempts returns the empty edit set, whatever the other budgets.
C5_RelocateExhaustedEmpty ==
    (/\ pc = "returned"
     /\ state.verify_attempts >= 1
     /\ state.verify_attempts = budgets.max_verify_attempts) => result = Some(<<>>)

\* C6: LOAD_CONTEXT, SYNTHESIZE and PROPOSE are never entered with zero
\* located ids (a LOCATE that used all its attempts without an id ends the
\* run with the guidance message), and the terminal exit of LOCATE is not
\* taken while locate attempts remain.
C6_LocateExhaustion ==
    [][loop = "edit" =>
          /\ (/\ state'.iterations = state.iterations + 1
              /\ decision' \in {"load_context", "synthesize", "propose_edits"})
                 => state.relevant_element_ids # <<>>
          /\ status' = "locate_no_matches" =>
                 state'.locate_attempts = budgets.max_locate_attempts]_vars

\* Ids that literally occur in the supplied context window
IdsInWindow == IF deps.scene_context = "" THEN {} ELSE WindowIds

\* C7: every id the model fallback of LOCATE stores occurs in the context
\* window or is a caller-supplied anchor id.
C7_FallbackIdsInWindow ==
    (loop = "edit" /\ status = "located_via_llm") =>
        Range(state.relevant_element_ids) \subseteq
            (IdsInWindow \cup Range(state.context_element_ids))

\* C8: a relocate recovery clears the located ids, loaded context,
\* understanding, proposed and applied edits, keeps the intent, and the next
\* phase executed is LOCATE.
C8_RelocateReturnsToLocate ==
    [][/\ (VerifyStep /\ decision' = "recover_relocate") =>
            /\ state'.relevant_element_ids = <<>>
            /\ IsNone(state'.loaded_context)
            /\ IsNone(state'.understanding)
            /\ IsNone(state'.proposed_edits)
            /\ IsNone(state'.applied_edits)
            /\ state'.intent = state.intent
       /\ (/\ loop = "edit"
           /\ decision = "recover_relocate"
           /\ state'.iterations = state.iterations + 1)
              => decision' = "locate_candidates"]_vars

\* C9: a reload_context recovery clears the loaded context, understanding,
\* proposed and applied edits, keeps the located ids and the intent, and the
\* next phase executed is LOAD_CONTEXT.
C9_ReloadReturnsToLoadContext ==
    [][/\ (VerifyStep /\ decision' = "recover_reload_context") =>
            /\ IsNone(state'.loaded_context)
            /\ IsNone(state'.understanding)
            /\ IsNone(state'.proposed_edits)
            /\ IsNone(state'.applied_edits)
            /\ state'.relevant_element_ids = state.relevant_element_ids
            /\ state'.intent = state.intent
       /\ (/\ loop = "edit"
           /\ decision = "recover_reload_context"
           /\ state'.iterations = state.iterations + 1)
              => decision' = "load_context"]_vars

\* A reload_context recovery has been dispatched on a run with located ids
\* and iterations left, so that the next phase runs.
C9_Witness ==
    /\ loop = "edit"
    /\ pc = "loop"
    /\ decision = "recover_reload_context"
    /\ state.relevant_element_ids # <<>>
    /\ ~IsNone(state.intent)
    /\ state.iterations < budgets.max_iterations

\* A step that dispatches the relocate or the reload_context recovery
GrowingRecoveryStep ==
    VerifyStep /\ decision' \in {"recover_relocate", "recover_reload_context"}

\* C10 as claimed: every relocate or reload_context recovery strictly
\* increases the context radius.
C10_RadiusStrictlyIncreases ==
    [][GrowingRecoveryStep => state'.context_size > state.context_size]_vars

\* C10 amended: a relocate or reload_context recovery strictly increases the
\* context radius while it is below the ceiling 8, never beyond 8, and
\* leaves a radius of 8 unchanged.
C10_RadiusIncreasesBelowCeiling ==
    [][GrowingRecoveryStep =>
          /\ state.context_size < 8 =>
                (state'.context_size > state.context_size /\ state'.context_size <= 8)
          /\ state.context_size = 8 => state'.context_size = 8]_vars

\* The fourth recovery of a run has been dispatched with the radius at the ceiling
C10_Witness ==
    /\ loop = "edit"
    /\ decision \in {"recover_relocate", "recover_reload_context"}
    /\ state.verify_attempts = 4
    /\ state.context_size = 8

\* C11: in every reachable Edit Loop state the context radius is at least its
\* initial value 3 and at most 8, and no step of a run decreases it.
C11_RadiusBounded ==
    /\ [](loop = "edit" => (state.context_size >= 3 /\ state.context_size <= 8))
    /\ [][loop = "edit" => state'.context_size >= state.context_size]_vars

\* A run whose radius has grown from 3 to the ceiling and has ended.
C11_Witness ==
    /\ loop = "edit"
    /\ pc = "returned"
    /\ state.context_size = 8
    /\ state.verify_attempts >= 3

\* C12: when a VERIFY round fails and the recovery playbook is handed abort,
\* an unknown strategy, or revise_edits without a revise agent, the run
\* returns the empty edit set in that same iteration: the applied set is left
\* as it was (no revise call) and dropped from the result, and the run is over.
AbortingRecoveryStep ==
    /\ VerifyStep
    /\ decision' \in {"recover_abort", "recover_unknown", "recover_revise_edits"}
    /\ ~(decision' = "recover_revise_edits" /\ deps.edit_revise_edits_agent)

C12_AbortReturnsEmpty ==
    [][AbortingRecoveryStep =>
        /\ pc' = "returned"
        /\ result' = Some(<<>>)
        /\ status' = "verify_abort"
        /\ state'.iterations = state.iterations + 1
        /\ state'.applied_edits = state.applied_edits]_vars

\* An abort on revise_edits without a revise agent that drops a non-empty set.
C12_Witness ==
    /\ loop = "edit"
    /\ pc = "returned"
    /\ decision = "recover_revise_edits"
    /\ ~deps.edit_revise_edits_agent
    /\ EditsOrEmpty(state.applied_edits) # <<>>
    /\ result = Some(<<>>)

\* C13: a run of the Edit Loop emits apply_done at most once, and none while
\* it is still looping; a run that has returned has emitted it exactly once
\* when it ended through FINISH or through the verify abort, and not at all
\* when it ended through clarify, the LOCATE terminal exit or the iteration
\* budget.
ExitsWithoutApplyDone == {"clarify_questions", "locate_no_matches", "budget_exceeded"}

C13_ApplyDoneOnce ==
    loop = "edit" =>
        /\ events.apply_done <= 1
        /\ (pc = "loop" => events.apply_done = 0)
        /\ (pc = "returned" =>
                events.apply_done = (IF status \in ExitsWithoutApplyDone THEN 0 ELSE 1))

\* A run that ended through FINISH without a VERIFY round in its last iteration.
C13_Witness ==
    /\ loop = "edit"
    /\ pc = "returned"
    /\ status \notin ExitsWithoutApplyDone \cup {"verify_abort", "verify_complete"}
    /\ events.apply_done = 1

\* C14: apply_started has been emitted exactly once in every Edit run that has
\* entered REFINE and not at all in one that has not; it is emitted by the
\* first entry into REFINE, with no apply_done before it, and not by a later
\* entry; when max_refine_attempts >= 1 every apply_done comes after it.
C14_ApplyStartedOnce ==
    /\ [](loop = "edit" =>
            /\ events.apply_started = (IF state.refine_attempts >= 1 THEN 1 ELSE 0)
            /\ (budgets.max_refine_attempts >= 1 /\ events.apply_done >= 1
                    => events.apply_started = 1))
    /\ [][(loop = "edit" /\ events'.apply_started # events.apply_started) =>
            /\ state.refine_attempts = 0
            /\ state'.refine_attempts = 1
            /\ decision' = "refine_edits"
            /\ events.apply_done = 0]_vars

\* A recovery has brought the loop back to REFINE a second time.
C14_Witness ==
    /\ loop = "edit"
    /\ decision = "refine_edits"
    /\ state.refine_attempts = 2
    /\ events.apply_started = 1

\* The clarify exit of the Edit Loop: the run has returned the empty edit set
\* in its first iteration, after one clarify status event, with no LOCATE and
\* no artifact of a later phase.
ClarifyExit ==
    /\ pc = "returned"
    /\ result = Some(<<>>)
    /\ state.iterations = 1
    /\ state.locate_attempts = 0
    /\ state.relevant_element_ids = <<>>
    /\ IsNone(state.loaded_context)
    /\ IsNone(state.proposed_edits)
    /\ events.clarify_statuses = 1

\* C15 as claimed: when PLAN_INTENT returns clarify the run takes the clarify
\* exit and its one status event lists every question the planner returned.
C15_ClarifyListsEveryQuestion ==
    (loop = "edit" /\ decision = "clarify") =>
        /\ ClarifyExit
        /\ Range(NonBlank(events.planned_questions)) \subseteq Range(events.listed_questions)

\* C15: when PLAN_INTENT returns clarify the run takes the clarify exit and
\* its one status event lists the planner's non-blank questions in order, the
\* first three of them when there are more, and the loop's default question
\* when there is none.
C15_ClarifyListsFirstThree ==
    (loop = "edit" /\ decision = "clarify") =>
        LET asked == NonBlank(events.planned_questions)
            listed == events.listed_questions
        IN  /\ ClarifyExit
            /\ Len(listed) <= 3
            /\ (asked = <<>> => listed = <<DefaultQuestion>>)
            /\ (asked # <<>> =>
                    /\ Len(listed) = Min(3, Len(asked))
                    /\ \A i \in DOMAIN listed : listed[i] = asked[i])

\* A clarify exit where the planner returned four questions.
C15_Witness ==
    /\ loop = "edit"
    /\ decision = "clarify"
    /\ Len(NonBlank(events.planned_questions)) = 4
    /\ Len(events.listed_questions) = 3

\* The plan of an Ask run, once the planner has returned a usable one
AskPlanned(next_action) ==
    /\ loop = "ask"
    /\ ~IsNone(state.plan)
    /\ ~Val(state.plan).empty
    /\ Val(state.plan).next_action = next_action

SearchTools == {"llm.ask_query_variants", "llm.extract_search_terms", "vec_search", "db_search"}

\* C17: when the Ask planner returns answer_direct, no query-variant,
\* search-term, vector or keyword search call is made in the run, the context
\* slot is set from the global index and/or the scene context (the empty
\* string when neither is used), and the iteration that follows executes
\* ANSWER, which returns.
C17_AnswerDirectSkipsRetrieval ==
    /\ [](AskPlanned("answer_direct") =>
            LET window == IF Val(state.plan).use_context THEN deps.scene_context ELSE ""
            IN  /\ events.calls \cap SearchTools = {}
                /\ state.retrieve_attempts = 1
                /\ state.evidence_element_ids = <<>>
                /\ ~IsNone(state.retrieved_context)
                /\ (Val(state.retrieved_context) = "") = (deps.global_index = "" /\ window = "")
                /\ (Val(state.retrieved_context) \in {"index", "index+window"})
                        = (deps.global_index # ""))
    /\ [][(AskPlanned("answer_direct") /\ state'.iterations = state.iterations + 1) =>
            /\ decision' = "answer"
            /\ pc' = "returned"
            /\ state'.retrieve_attempts = 1]_vars

\* ANSWER has run on the empty context although a RETRIEVE attempt was left.
C17_Witness ==
    /\ AskPlanned("answer_direct")
    /\ pc = "returned"
    /\ decision = "answer"
    /\ state.retrieved_context = Some("")
    /\ budgets.max_retrieve_attempts = 2
    /\ deps.store

\* An Ask run without a store in which a RETRIEVE attempt has run
NoStoreRetrieved == loop = "ask" /\ ~deps.store /\ state.retrieve_attempts >= 1

\* The plan, if any, does not short-circuit RETRIEVE
NoShortcut ==
    \/ IsNone(state.plan)
    \/ Val(state.plan).empty
    \/ Val(state.plan).next_action = "retrieve"

\* The fallback context a run without a store is claimed to use
ProvidedContext == IF deps.scene_context # "" THEN deps.scene_context ELSE deps.global_index

\* C18 as claimed: with no store available a run issues no vector or keyword
\* search, leaves evidence_element_ids empty, sets the context to the scene
\* context (the global index when that is blank) and executes ANSWER in the
\* next iteration, returning the model's answer.
C18_NoStoreAnswersFromWindow ==
    /\ [](NoStoreRetrieved =>
            /\ events.calls \cap {"vec_search", "db_search"} = {}
            /\ state.evidence_element_ids = <<>>
            /\ state.retrieved_context = Some(ProvidedContext)
            /\ (pc = "returned" /\ status # "budget_exceeded" => decision = "answer"))
    /\ [][(NoStoreRetrieved /\ state'.iterations = state.iterations + 1) =>
            (decision' = "answer" /\ pc' = "returned")]_vars

\* C18: with no store available a run issues no vector or keyword search and
\* leaves evidence_element_ids empty; unless the planner chose clarify or
\* answer_direct, its one RETRIEVE attempt sets the context to the scene
\* context (the global index when that is blank) and the following iteration
\* executes ANSWER and returns.
C18_NoStoreFallsBackUnlessShortcut ==
    /\ [](NoStoreRetrieved =>
            /\ events.calls \cap {"vec_search", "db_search"} = {}
            /\ state.evidence_element_ids = <<>>
            /\ state.retrieve_attempts = 1
            /\ (NoShortcut =>
                    /\ state.retrieved_context = Some(ProvidedContext)
                    /\ (pc = "returned" /\ status # "budget_exceeded" => decision = "answer")))
    /\ [][(NoStoreRetrieved /\ NoShortcut /\ state'.iterations = state.iterations + 1) =>
            (decision' = "answer" /\ pc' = "returned")]_vars

\* ANSWER has returned on the global index: no store, blank scene context.
C18_Witness ==
    /\ NoStoreRetrieved
    /\ AskPlanned("retrieve")
    /\ pc = "returned"
    /\ decision = "answer"
    /\ deps.scene_context = ""
    /\ state.retrieved_context = Some("index")

\* The grounding check has just rejected the evidence of a RETRIEVE attempt
GroundingRejected == loop = "ask" /\ status = "broadening"

\* C19: a grounding rejection discards the retrieved context; the iteration
\* that follows is one further, broadened RETRIEVE attempt when the rejected
\* attempt was not the last permitted one, and is ANSWER, which ends the run
\* with no further RETRIEVE, when it was.
C19_GroundingRejection ==
    /\ [](GroundingRejected =>
            /\ IsNone(state.retrieved_context)
            /\ decision = "grounding_check"
            /\ "llm.ask_grounding_check" \in events.calls)
    /\ [][(GroundingRejected /\ state'.iterations = state.iterations + 1) =>
            IF state.retrieve_attempts < budgets.max_retrieve_attempts
              THEN /\ state'.retrieve_attempts = state.retrieve_attempts + 1
                   /\ state'.retrieve_attempts > 1
                   /\ decision' \in {"grounding_check", "retrieve_context"}
                   /\ pc' = "loop"
              ELSE /\ state'.retrieve_attempts = state.retrieve_attempts
                   /\ decision' = "answer"
                   /\ pc' = "returned"]_vars

\* A rejection on the last permitted attempt, with an iteration left for ANSWER.
C19_Witness ==
    /\ GroundingRejected
    /\ state.retrieve_attempts = 2
    /\ budgets.max_retrieve_attempts = 2
    /\ state.iterations < budgets.max_iterations

\* The evidence list of an attempt whose candidate pool was not empty
EvidenceChosen == loop = "evidence" /\ pc = "returned"

\* C20 as claimed: the evidence id list chosen from a non-empty candidate
\* pool has between rerank_select_min and rerank_select_max ids.
C20_EvidenceWithinMinMax ==
    EvidenceChosen =>
        /\ Len(state.evidence_element_ids) >= budgets.rerank_select_min
        /\ Len(state.evidence_element_ids) <= budgets.rerank_select_max

\* C20: the evidence id list chosen from a non-empty candidate pool has at
\* most rerank_select_max ids, and at least rerank_select_min of them or as
\* many as the pool holds when the pool is smaller than that.
C20_EvidenceWithinPoolAndMax ==
    EvidenceChosen =>
        /\ Len(state.evidence_element_ids) <= budgets.rerank_select_max
        /\ Len(state.evidence_element_ids) >=
                Min(budgets.rerank_select_min, Len(state.candidate_ids))
        /\ Len(state.evidence_element_ids) >= 1

\* The reranker returned more ids than rerank_select_max and the list was cut.
C20_Witness ==
    /\ EvidenceChosen
    /\ Len(DedupePreserveOrder(state.selected)) > budgets.rerank_select_max
    /\ Len(state.evidence_element_ids) = budgets.rerank_select_max

\* C21: in every RETRIEVE attempt that reaches context extraction the plan's
\* must-include ids, each once and in the plan's order, are the front of the
\* final evidence_element_ids, whatever the reranker selected and however
\* many must-include ids there are.
C21_MustIncludeAtFront ==
    EvidenceChosen =>
        LET must == DedupePreserveOrder(state.must_include)
            chosen_ids == state.evidence_element_ids
        IN  /\ Len(chosen_ids) >= Len(must)
            /\ SubSeq(chosen_ids, 1, Len(must)) = must

\* C22: a todo_update(id, s) call whose s is the recorded status of id (or
\* whose id or s is blank) emits no event and leaves the recorded statuses as
\* they are, any other call emits one event and records s; so the second of
\* two consecutive identical calls emits nothing.
C22_TodoUpdateIdempotent ==
    [][loop = "todo" =>
        LET todo_id == events'.call[1]
            new_status == events'.call[2]
        IN  /\ IF todo_id = "" \/ new_status = "" \/ state.todo_status[todo_id] = new_status
                 THEN /\ events'.emitted = events.emitted
                      /\ state'.todo_status = state.todo_status
                 ELSE /\ events'.emitted = events.emitted + 1
                      /\ state'.todo_status = [state.todo_status EXCEPT ![todo_id] = new_status]
            /\ (events'.call = events.call /\ events.calls_made >= 1)
                    => events'.emitted = events.emitted]_vars

\* Two consecutive updates of an id to done, one event.
C22_Witness ==
    /\ loop = "todo"
    /\ events.calls_made = 2
    /\ events.prev_call = <<"retrieve", "done">>
    /\ events.call = <<"retrieve", "done">>
    /\ events.emitted = 1

\* The todo list of the run (state.todos)
RunTodos ==
    IF loop = "edit" THEN (IF IsNone(state.intent) THEN {} ELSE EditFallbackTodos)
                     ELSE AskTodos(state.plan)

\* C23: when a run of either loop has returned, every todo of its list and
\* every id for which a todo_update event was emitted has done or skipped as
\* the last status emitted for it.
C23_NoDanglingTodo ==
    (loop \in {"edit", "ask"} /\ pc = "returned") =>
        \A id \in DOMAIN todo.last_emitted :
            (id \in RunTodos \/ todo.last_emitted[id] # "none")
                => todo.last_emitted[id] \in Finished

\* C24: no todo_update event of a run moves an id that was done or skipped
\* back to pending or in_progress.
C24_TodoNeverRegresses ==
    loop \in {"edit", "ask"} => ~todo.regressed

\* C25: in stream_chat every emitted event reaches the drain loop exactly
\* once and in emission order (what was taken from the queue, followed by
\* what is still queued, is what was emitted); the drain loop is left only
\* with the task finished and the queue empty; and the final payload is
\* yielded only after every emitted event was taken.
C25_EventsDeliveredInOrder ==
    loop = "stream" =>
        /\ state.delivered \o state.queue = state.emitted
        /\ (pc # "drain" => (state.task # "running" /\ state.queue = <<>>))
        /\ (result = Some("final") => state.delivered = state.emitted)

\* the run has finished while events are still queued
C25_Witness ==
    /\ loop = "stream"
    /\ state.task = "done"
    /\ state.queue # <<>>
    /\ state.delivered # <<>>

\* C26: emit never blocks the run: with the run task scheduled fairly and
\* nothing assumed about the caller's drain loop, the task finishes.
C26_RunFinishesWithoutConsumer ==
    <>(loop = "stream" /\ state.task # "running")

\* the run has returned although no event was ever taken from the queue
C26_Witness ==
    /\ loop = "stream"
    /\ state.task = "done"
    /\ state.delivered = <<>>
    /\ Len(state.queue) >= 2

\* C27: once a collaborator call (model or store) has failed, the run has
\* raised (so it makes no further call), and stream_chat ends on the legacy
\* path.
C27_FailurePropagates ==
    (loop = "stream" /\ state.failure # "none") =>
        /\ state.task = "raised"
        /\ (pc = "returned" => result = Some("legacy"))

\* the part of C27 about model calls alone
C27_ModelFailurePropagates ==
    (loop = "stream" /\ state.failure = "model_call") =>
        /\ state.task = "raised"
        /\ (pc = "returned" => result = Some("legacy"))

\* C28: every exit that returns no result emits a status event that
\* explains it in the iteration that returns: the clarify exit of either
\* loop, the terminal exit of LOCATE, the abort of VERIFY and the exit on an
\* exhausted iteration budget.
C28_NoResultExitExplained ==
    [][(pc = "loop" /\ pc' = "returned") =>
         /\ Enters("plan_intent") => status' = "clarify_questions"
         /\ Enters("locate_candidates") => status' = "locate_no_matches"
         /\ (Enters("verify") /\ decision' # "verify") => status' = "verify_abort"
         /\ AskEnters("retrieve_context") => status' = "clarify"
         /\ ~(state.iterations < budgets.max_iterations)
              => status' = "budget_exceeded"]_vars

\* a run that ended on the abort of VERIFY
C28_Witness ==
    /\ loop = "edit"
    /\ pc = "returned"
    /\ decision = "recover_abort"
    /\ status = "verify_abort"
    /\ result = Some(<<>>)

\* position of the first occurrence of x in items
FirstIndex(items, x) == CHOOSE i \in 1..Len(items) :
                            items[i] = x /\ \A j \in 1..(i - 1) : items[j] # x

\* out lists the distinct items of items in order of first occurrence
DistinctInFirstSeenOrder(items, out) ==
    /\ Range(out) = Range(items)
    /\ \A i, j \in 1..Len(out) : i < j =>
          /\ out[i] # out[j]
          /\ FirstIndex(items, out[i]) < FirstIndex(items, out[j])

\* C29: _dedupe_preserve_order returns the distinct items of its input in
\* order of first occurrence ([a,b,a,c,b] gives [a,b,c]), and so the merged
\* candidate id list, its prefix of max_candidates ids, has no duplicate and
\* keeps first-seen order.
C29_DedupePreservesOrder ==
    (loop = "dedupe" /\ pc # "call") =>
        /\ DistinctInFirstSeenOrder(state.items, state.out)
        /\ (state.items = <<"a", "b", "a", "c", "b">>
              => state.out = <<"a", "b", "c">>)
        /\ (pc = "merged" =>
              /\ Len(state.candidate_ids) <= budgets.max_candidates
              /\ \E rest \in ItemLists :
                    DistinctInFirstSeenOrder(state.items, state.candidate_ids \o rest))

\* the spec's example went through the dedupe and the merge
C29_Witness ==
    /\ loop = "dedupe"
    /\ pc = "merged"
    /\ state.items = <<"a", "b", "a", "c", "b">>
    /\ state.out = <<"a", "b", "c">>
    /\ budgets.max_candidates = 2
    /\ state.candidate_ids = <<"a", "b">>

\* an edit a VERIFY round must not let through: no elementId, no
\* newContent, or an elementId outside the given ids
Ungrounded(edit, allowed_ids) ==
    \/ edit.elementId = ""
    \/ edit.newContent = ""
    \/ edit.elementId \notin allowed_ids

\* C30: a VERIFY round never succeeds on an applied set holding an edit with
\* no elementId, with an empty newContent, or with an elementId that is
\* neither an anchor id of the context window nor a located id, also when
\* there are no anchor ids and no located ids.
C30_VerifyRejectsUngroundedEdits ==
    [][(VerifyStep /\ status' = "verify_complete") =>
         \A i \in DOMAIN EditsOrEmpty(state.applied_edits) :
             ~Ungrounded(EditsOrEmpty(state.applied_edits)[i], AllowedIds(state))]_vars

\* the part of C30 about runs that have an anchor id or a located id
C30_VerifyRejectsWhenIdsKnown ==
    [][(VerifyStep /\ status' = "verify_complete" /\ AllowedIds(state) # {}) =>
         \A i \in DOMAIN EditsOrEmpty(state.applied_edits) :
             ~Ungrounded(EditsOrEmpty(state.applied_edits)[i], AllowedIds(state))]_vars

\* C31: a VERIFY round in which the structured verifier answers ok = true,
\* the local structural checks find no issue (and the store reports no
\* invalid id) ends VERIFY successfully, whatever the verifier's issues list
\* and suggested recovery are.
C31_OkVerifierEndsVerify ==
    [][\A verifier_issues \in BOOLEAN, verifier_recovery \in Recoveries :
          (/\ Enters("verify")
           /\ StructuredVerify
           /\ StructuralIssues(EditsOrEmpty(state.applied_edits), AllowedIds(state)) = {}
           /\ VerifyRound(FALSE, TRUE, verifier_issues, verifier_recovery))
            => (status' = "verify_complete" /\ pc' = "returned")]_vars

\* the part of C31 about a verifier that answers ok = true and lists no issue
C31_OkVerifierWithoutIssues ==
    [][\A verifier_recovery \in Recoveries :
          (/\ Enters("verify")
           /\ StructuredVerify
           /\ StructuralIssues(EditsOrEmpty(state.applied_edits), AllowedIds(state)) = {}
           /\ VerifyRound(FALSE, TRUE, FALSE, verifier_recovery))
            => (status' = "verify_complete" /\ pc' = "returned")]_vars

\* A VERIFY round that failed in a run with structured recovery disabled
LegacyFailedVerify ==
    /\ VerifyStep
    /\ ~deps.verify_recover_enabled
    /\ status' = "issues_found"

\* the strategies of the recovery playbook, as `decision` events
RecoveryDecisions ==
    {"recover_relocate", "recover_reload_context", "recover_revise_edits",
     "recover_abort", "recover_unknown"}

\* C32: with structured recovery disabled, a failed VERIFY round only clears
\* the applied edits (and counts the iteration and the attempt), the phase
\* routed next is REFINE, and no recovery strategy is ever dispatched.
C32_LegacyBacktracksToRefine ==
    /\ [](loop = "edit" /\ ~deps.verify_recover_enabled
            => decision \notin RecoveryDecisions)
    /\ [][LegacyFailedVerify =>
            /\ decision' = "backtrack_to_refine"
            /\ state' = [state EXCEPT !.applied_edits = None,
                                      !.iterations = @ + 1,
                                      !.verify_attempts = @ + 1]
            /\ pc' = "loop"
            /\ Route(state', budgets) = "refine_edits"]_vars

\* the part of C32 that does not depend on a refine attempt being left
C32_LegacyClearsAppliedEdits ==
    /\ [](loop = "edit" /\ ~deps.verify_recover_enabled
            => decision \notin RecoveryDecisions)
    /\ [][LegacyFailedVerify =>
            /\ decision' = "backtrack_to_refine"
            /\ state' = [state EXCEPT !.applied_edits = None,
                                      !.iterations = @ + 1,
                                      !.verify_attempts = @ + 1]
            /\ pc' = "loop"
            /\ (state.refine_attempts < budgets.max_refine_attempts
                  => Route(state', budgets) = "refine_edits")]_vars

\* a list without a repeated entry
NoDuplicate(list) == \A i, j \in 1..Len(list) : i # j => list[i] # list[j]

\* C33: the query variants a RETRIEVE attempt searches with are non-empty,
\* start with the original question, hold no duplicate, and are at most
\* max_query_variants (first attempt) or max_query_variants_broaden (later
\* attempts) long.
C33_QueryVariantsWellFormed ==
    (loop = "variants" /\ pc = "search") =>
        /\ state.variants # <<>>
        /\ Head(state.variants) = state.question
        /\ NoDuplicate(state.variants)
        /\ Len(state.variants) <= VariantCap(budgets, state.retrieve_attempts)

\* the part of C33 that holds for every list: non-empty, question first,
\* capped, and free of duplicates when the planner gave variants
C33_QueryVariantsQuestionFirst ==
    (loop = "variants" /\ pc = "search") =>
        /\ state.variants # <<>>
        /\ Head(state.variants) = state.question
        /\ Len(state.variants) <= VariantCap(budgets, state.retrieve_attempts)
        /\ (state.planner_variants # <<>> => NoDuplicate(state.variants))

\* C34: in the Ask Loop a RETRIEVE attempt after the first one follows a
\* grounding rejection and nothing else; an attempt that does not end in a
\* rejection (no candidates, or an extraction that returns nothing: the
\* fallback to the provided window or the global index) leaves a context
\* set, so that the next phase is ANSWER even if attempts remain.
C34_RetrieveRepeatsOnlyOnRejection ==
    [][(AskEnters("retrieve_context") /\ pc' = "loop") =>
         /\ (state.retrieve_attempts >= 1 => status = "broadening")
         /\ (status' # "broadening" =>
                /\ ~IsNone(state'.retrieved_context)
                /\ AskRoute(state', budgets) = "answer")
         /\ (status' \in {"using_window", "using_index"} =>
                state'.retrieved_context = Some(FallbackContext(deps)))]_vars

\* a first attempt with a store found no candidate after the vector and the
\* keyword search, fell back, and an attempt is still left
C34_Witness ==
    /\ loop = "ask"
    /\ pc = "loop"
    /\ deps.store
    /\ "db_search" \in events.calls
    /\ "db_extract_context" \notin events.calls
    /\ status \in {"using_window", "using_index"}
    /\ state.retrieve_attempts = 1
    /\ budgets.max_retrieve_attempts = 2
    /\ AskRoute(state, budgets) = "answer"

\* C35: the attempt counters stay within their caps in every reachable
\* state (retrieve in the Ask Loop; locate, refine and verify in the Edit
\* Loop) and no step, recovery included, lowers one of them.
C35_AttemptsWithinCaps ==
    /\ [](loop = "ask" => state.retrieve_attempts <= budgets.max_retrieve_attempts)
    /\ [](loop = "edit" =>
            /\ state.locate_attempts <= budgets.max_locate_attempts
            /\ state.refine_attempts <= budgets.max_refine_attempts
            /\ state.verify_attempts <= budgets.max_verify_attempts)
    /\ [][loop = "ask" => state'.retrieve_attempts >= state.retrieve_attempts]_vars
    /\ [][loop = "edit" =>
            /\ state'.locate_attempts >= state.locate_attempts
            /\ state'.refine_attempts >= state.refine_attempts
            /\ state'.verify_attempts >= state.verify_attempts]_vars

\* a relocate recovery was dispatched after LOCATE had used an attempt
C35_Witness ==
    /\ loop = "edit"
    /\ decision = "recover_relocate"
    /\ state.locate_attempts >= 1
    /\ state.refine_attempts >= 1
    /\ state.verify_attempts >= 1
    /\ state.relevant_element_ids = <<>>

\* C36: in every reachable Edit Loop state the artifacts respect the phase
\* order (applied_edits needs proposed_edits, which needs understanding,
\* which needs loaded_context, which needs intent); PROPOSE is entered only
\* with an understanding and REFINE only with a proposal, after recoveries
\* too.
C36_ArtifactsInPhaseOrder ==
    /\ [](loop = "edit" =>
            /\ (~IsNone(state.applied_edits) => ~IsNone(state.proposed_edits))
            /\ (~IsNone(state.proposed_edits) => ~IsNone(state.understanding))
            /\ (~IsNone(state.understanding) => ~IsNone(state.loaded_context))
            /\ (~IsNone(state.loaded_context) => ~IsNone(state.intent)))
    /\ [][/\ Enters("propose_edits") => ~IsNone(state.understanding)
          /\ Enters("refine_edits") => ~IsNone(state.proposed_edits)]_vars

\* REFINE has run again after a failed VERIFY round and its recovery
C36_Witness ==
    /\ loop = "edit"
    /\ pc = "loop"
    /\ decision = "refine_edits"
    /\ state.verify_attempts >= 1
    /\ state.context_size > 3
    /\ ~IsNone(state.applied_edits)

\* C37: with the default budgets no run reaches the iteration-budget exit:
\* an Ask run uses at most max_retrieve_attempts + 1 = 3 iterations and an
\* Edit run at most 18, whatever the collaborators return.
C37_DefaultBudgetsNeverExhausted ==
    /\ (loop = "ask" /\ budgets.max_iterations = DefaultAskMaxIterations) =>
          /\ status # "budget_exceeded"
          /\ state.iterations <= DefaultMaxRetrieveAttempts + 1
    /\ (loop = "edit" /\ budgets.max_iterations = DefaultMaxIterations) =>
          /\ status # "budget_exceeded"
          /\ pc # "raised"
          /\ state.iterations <= 18

\* an Edit run that took 18 iterations: two failed VERIFY rounds, each
\* followed by a relocate, and a FINISH without a further round
C37_Witness ==
    /\ loop = "edit"
    /\ budgets.max_iterations = DefaultMaxIterations
    /\ pc = "returned"
    /\ state.iterations = 18
    /\ state.locate_attempts = DefaultMaxLocateAttempts
    /\ state.verify_attempts = DefaultMaxVerifyAttempts

\* C38: in every Edit run that has returned, an emitted apply_started has been
\* followed by an apply_done, whichever exit the run took (FINISH,
\* verify-abort, the LOCATE terminal exit after a relocate, the exhausted
\* iteration budget).
C38_ApplyStartedIsClosed ==
    (loop = "edit" /\ pc = "returned" /\ events.apply_started > 0) =>
        events.apply_done > 0

\* the part that holds: the exits through FINISH and verify-abort close the
\* marker, the other exits never do
C38_ClosedOnFinishAndAbort ==
    (loop = "edit" /\ pc = "returned" /\ events.apply_started > 0) =>
        (events.apply_done > 0 <=> status \notin ExitsWithoutApplyDone)

C38_WitnessLocateExit ==
    /\ loop = "edit" /\ pc = "returned"
    /\ events.apply_started > 0
    /\ status = "locate_no_matches"

\* C39: for every project id at most one on-demand embedding backfill task is
\* in flight at any time, also when several calls of
\* _maybe_trigger_embed_backfill for the project interleave at their awaits.
C39_OneBackfillPerProject ==
    loop = "backfill" => \A p \in ProjectIds : state.tasks[p] <= 1

\* the part that holds: a project registered as in flight has a task
C39_InflightHasTask ==
    loop = "backfill" =>
        \A p \in state.embed_backfill_inflight : state.tasks[p] >= 1

C39_WitnessTaskInFlight ==
    /\ loop = "backfill"
    /\ \E p \in ProjectIds : state.tasks[p] = 1 /\ p \in state.embed_backfill_inflight
    /\ \E c \in Callers : state.callers[c].at = "await_row"

\* C40: a DBService instance creates at most one connection pool, also when
\* ensure_pool is called by several coroutines before the first creation has
\* completed.
C40_OnePoolPerService ==
    loop = "pool" => state.created <= 1

\* the part that holds: once a pool is held and no creation is pending,
\* ensure_pool creates nothing
C40_NoCreationWhileHeld ==
    [][(loop = "pool" /\ state.pool # None
          /\ \A c \in PoolCallers : state.callers[c].at = "idle")
        => state'.created = state.created /\ state'.pool = state.pool]_vars

C40_WitnessPoolHeld ==
    /\ loop = "pool"
    /\ state.created = 1
    /\ state.pool = Some(1)
    /\ state.db_pool = Some(1)
    /\ \A c \in PoolCallers : state.callers[c].at = "idle"

====
